---- MODULE Spec2Model ----
(***************************************************************************)
(* Model of the optimal gathering point search of                          *)
(* g-clean/optimal-gathering-point: OptimalPointFinder (optimal_point.py)  *)
(* and its caller CalculationThread.run (main.py).                         *)
(*                                                                         *)
(* Encoding of the program's values                                        *)
(*  - A coordinate is a record [lat, lng, den]: latitude lat/den and       *)
(*    longitude lng/den in micro-degrees (1e-6 degree).  A value rounded   *)
(*    to 6 decimals (round(x, 6)) has den = 1.  The only unrounded points  *)
(*    are the plain means calculate_centroid returns when the weights sum  *)
(*    to 0; they carry the way their float rounds on an exact half (tie).  *)
(*    The point (nan, nan) has den = 0.                                    *)
(*  - A weight w is stored as the integer WeightScale * w (weights are     *)
(*    multiples of 1/2), so 1.0 is stored as 2; float('inf') and           *)
(*    float('nan') are stored as Infinity and NaN.                         *)
(*  - A cost evaluation in which int(float('inf')) raises has the value    *)
(*    OverflowError; the step that reads it ends the call with the error.  *)
(*  - The radius is the rational radiusNum / radiusDen micro-degrees.      *)
(*  - Python's None is <<>>, a present value v is <<v>>.                   *)
(*  - Arguments whose Python type varies (clustering_method,               *)
(*    min_cluster_size) are tagged tuples <<"none">>, <<"str", s>>,        *)
(*    <<"int", i>>.                                                        *)
(***************************************************************************)
EXTENDS Integers, Sequences, FiniteSets, TLC

(***************************************************************************)
(* Program constants                                                       *)
(***************************************************************************)
\* self.min_radius = 0.0001 degrees, in micro-degrees
min_radius == 100
\* self.cluster_threshold
cluster_threshold == 20
\* radius = search_step * 0.000009 degrees: micro-degrees per meter
MicroDegPerMeter == 9
\* default of the parameter search_step
DefaultSearchStep == 100
\* default of the parameter max_cluster_size
DefaultMaxClusterSize == 10
\* _perform_clustering: min_cluster_size = param if param > 0 else 5
DefaultHdbscanParam == 5
\* _perform_clustering: max_cluster_size = param if param > 0 else 10
DefaultKmeansParam == 10
\* the weight 1.0 is stored as WeightScale
WeightScale == 2
\* the weights float('inf') and float('nan') as they are stored
Infinity == 1000000
NaN == -1000000
\* the value that stands for the OverflowError int(float('inf')) raises
\* (optimal_point.py line 111): no cost, which is >= 0, equals it
OverflowError == -2000000
\* the value of a division by zero: the ZeroDivisionError of
\* len(coordinates) // max_cluster_size
ZeroDivisionError == -2500000

None == <<>>
Some(v) == <<v>>
IsNone(o) == o = <<>>
Val(o) == o[1]

(***************************************************************************)
(* Arithmetic helpers                                                      *)
(***************************************************************************)
Abs(x) == IF x < 0 THEN -x ELSE x

\* What round(x, 6) can give for a freshly computed x = a/b micro-degrees
\* (b > 0).  The program computes x in binary floating point, so a value
\* that lies exactly half-way between two 6-decimal numbers is rounded by
\* the representation error of x: either neighbour is possible.
RoundChoices(a, b) ==
    LET q == a \div b
        r == a % b
    IN  IF 2 * r = b THEN {q, q + 1} ELSE IF 2 * r < b THEN {q} ELSE {q + 1}

\* round(x, 6) of the float x = a/b micro-degrees (b > 0) that rounds an
\* exact half upwards (up = 1) or downwards (up = 0)
RoundTie(a, b, up) ==
    LET q == a \div b
        r == a % b
    IN  IF 2 * r = b THEN q + up ELSE IF 2 * r < b THEN q ELSE q + 1

\* the ways the float a/b can round: both on an exact half, one otherwise
TieChoices(a, b) == IF 2 * (a % b) = b THEN {0, 1} ELSE {0}

Pt(lat, lng) == [lat |-> lat, lng |-> lng, den |-> 1]

\* the point (nan, nan)
NaNPoint == [lat |-> 0, lng |-> 0, den |-> 0]
IsNaNPoint(p) == p.den = 0

\* the numpy array [nan, nan]
NaNArray == [lat |-> 0, lng |-> 0, den |-> 0, tie |-> <<0, 0>>]

\* an unrounded point (lat / den, lng / den), the numpy array points.mean
\* returns: the floats it holds round the same way each time they are
\* rounded, tie[1] for the latitude and tie[2] for the longitude
Unrounded(lat, lng, den) ==
    {[lat |-> lat, lng |-> lng, den |-> den, tie |-> <<a, g>>] :
        a \in TieChoices(lat, den), g \in TieChoices(lng, den)}

\* isinstance(p, tuple): the rounded points and the tuple (nan, nan), not
\* the arrays
IsTuple(p) == "tie" \notin DOMAIN p

\* (round(p[0], 6), round(p[1], 6)) of a stored point; the identity on the
\* points that are already rounded (den = 1); (nan, nan) for a nan point
Round6(p) ==
    IF IsNaNPoint(p) THEN NaNPoint
    ELSE IF IsTuple(p) THEN Pt(p.lat, p.lng)
    ELSE Pt(RoundTie(p.lat, p.den, p.tie[1]), RoundTie(p.lng, p.den, p.tie[2]))

RECURSIVE SumSeq(_)
SumSeq(s) == IF s = <<>> THEN 0 ELSE Head(s) + SumSeq(Tail(s))

\* weights[:n] + [1.0] * (n - len(weights))
PadWeights(weights, n) ==
    [i \in 1..n |-> IF i <= Len(weights) THEN weights[i] ELSE WeightScale]

\* a variant of the padding that truncates and extends the list it was given
ArgumentPaddedInPlace(argument, n) == PadWeights(argument, n)

\* the list object passed in as `weights` after lines 45-47 and 74-76: the
\* slice and the concatenation build a new list bound to the local name, the
\* object the caller holds is not written
ArgumentAfterPadding(argument, n) == argument

\* [1.0] * n
Ones(n) == [i \in 1..n |-> WeightScale]

\* the float is inf or nan
NonFinite(x) == x \in {Infinity, NaN}

\* the weight 1e308, a finite float: 1 * 1e308 is 1e308, 2 * 1e308 and
\* 1e308 + 1e308 overflow to inf, and 1e308 + x is 1e308 for every other
\* weight x used here
Huge == 900000

\* the float sum of a list of weights: nan when one is nan, inf when one is
\* inf and none is nan, inf when two are 1e308, 1e308 when one is
SumWeights(w) ==
    IF \E i \in 1..Len(w) : w[i] = NaN THEN NaN
    ELSE IF \E i \in 1..Len(w) : w[i] = Infinity THEN Infinity
    ELSE LET huge == {i \in 1..Len(w) : w[i] = Huge}
         IN  IF Cardinality(huge) > 1 THEN Infinity
             ELSE IF huge # {} THEN Huge
             ELSE SumSeq(w)

\* the float sum a + b
PlusWeight(a, b) ==
    IF NaN \in {a, b} THEN NaN
    ELSE IF Infinity \in {a, b} THEN Infinity
    ELSE IF a = Huge /\ b = Huge THEN Infinity
    ELSE IF Huge \in {a, b} THEN Huge
    ELSE a + b

\* time * weight for a time >= 0: 0 * inf is nan, and time * 1e308 is inf
\* from 2 seconds on
TimesWeight(time, w) ==
    IF w = NaN THEN NaN
    ELSE IF w = Infinity THEN (IF time = 0 THEN NaN ELSE Infinity)
    ELSE IF w = Huge THEN (IF time = 0 THEN 0 ELSE IF time = 1 THEN Huge ELSE Infinity)
    ELSE time * w

(***************************************************************************)
(* Geo math: calculate_centroid                                            *)
(***************************************************************************)
RECURSIVE ProdDen(_)
ProdDen(coords) == IF coords = <<>> THEN 1 ELSE Head(coords).den * ProdDen(Tail(coords))

\* the points with a latitude in lats and a longitude in lngs
Points(lats, lngs) == {Pt(a, g) : a \in lats, g \in lngs}

\* calculate_centroid(coordinates, weights): None for no coordinates; the
\* weighted mean rounded to 6 decimals; the plain, unrounded mean when the
\* weights sum to 0 (an array, [nan, nan] when a coordinate is nan); the
\* tuple (nan, nan) when a weight is inf or nan (the weighted sum and the
\* total weight are then inf or nan) or a coordinate is nan.  A single
\* weight of 1e308 absorbs the other weights, the mean is its coordinate;
\* with two of them the total weight is inf and the mean is (0.0, 0.0) (the
\* coordinates here are below 1.79 degrees, their products with 1e308
\* are finite).
\* weights is None (<<>>) or <<list>>.  The set of the values the call can
\* return (more than one only on a rounding tie).
calculate_centroid(coords, weightsOpt) ==
    IF coords = <<>> THEN {None}
    ELSE LET n  == Len(coords)
             w  == IF IsNone(weightsOpt) THEN Ones(n) ELSE PadWeights(Val(weightsOpt), n)
             D  == ProdDen(coords)
             sl == SumSeq([i \in 1..n |-> w[i] * coords[i].lat * (D \div coords[i].den)])
             sg == SumSeq([i \in 1..n |-> w[i] * coords[i].lng * (D \div coords[i].den)])
             tw == SumSeq(w)
             huge == {i \in 1..n : w[i] = Huge}
         IN  IF \E i \in 1..n : NonFinite(w[i])
             THEN {Some(NaNPoint)}
             ELSE IF huge # {}
             THEN IF \E i \in 1..n : IsNaNPoint(coords[i]) THEN {Some(NaNPoint)}
                  ELSE IF Cardinality(huge) > 1 THEN {Some(Pt(0, 0))}
                  ELSE {Some(Round6(coords[i])) : i \in huge}
             ELSE IF tw = 0 /\ \E i \in 1..n : IsNaNPoint(coords[i])
             THEN {Some(NaNArray)}
             ELSE IF \E i \in 1..n : IsNaNPoint(coords[i])
             THEN {Some(NaNPoint)}
             ELSE IF tw = 0
             THEN {Some(c) : c \in Unrounded(
                        SumSeq([i \in 1..n |-> coords[i].lat * (D \div coords[i].den)]),
                        SumSeq([i \in 1..n |-> coords[i].lng * (D \div coords[i].den)]),
                        D * n)}
             ELSE IF tw > 0
                  THEN {Some(c) : c \in Points(RoundChoices(sl, D * tw),
                                               RoundChoices(sg, D * tw))}
                  ELSE {Some(c) : c \in Points(RoundChoices(-sl, D * (-tw)),
                                               RoundChoices(-sg, D * (-tw)))}

(***************************************************************************)
(* The routing oracle (MapAPI.calculate_route as the finder sees it).      *)
(* An answer is [kind |-> "time", time |-> seconds], [kind |-> "none"] or  *)
(* [kind |-> "raise"].  The oracle is a deterministic function of the      *)
(* rounded origin and destination, selected by its mode:                   *)
(*   ok            every pair is priced                                    *)
(*   none_all      every lookup returns None                               *)
(*   raise_all     every lookup raises                                     *)
(*   none_south    destinations south of SouthLine return None             *)
(*   raise_south   destinations south of SouthLine raise                   *)
(*   none_north    origins north of NorthLine return None                  *)
(*   block_north   a lookup from an origin north of NorthLine is sent and  *)
(*                 never answered (requests.get has no timeout, map_api.py *)
(*                 lines 285 and 830): the call does not return            *)
(***************************************************************************)
\* travel speed of the oracle: micro-degrees of Manhattan distance per second
MicroDegPerSecond == 10
\* latitude (micro-degrees) south of which a destination cannot be priced
SouthLine == 1000
\* latitude (micro-degrees) north of which an origin cannot be priced
NorthLine == 2600

\* the oracles that answer every lookup, with a time, with None or by raising
OracleModes == {"ok", "none_all", "raise_all", "none_south", "raise_south", "none_north"}
\* the oracles that leave some lookups without an answer
BlockingModes == {"block_north"}

TimeAns(t) == [kind |-> "time", time |-> t]
NoneAns == [kind |-> "none", time |-> 0]
RaiseAns == [kind |-> "raise", time |-> 0]
\* no answer ever: the lookup blocks in requests.get
BlockAns == [kind |-> "block", time |-> 0]
\* the value of a call that does not return
NoReturn == 3000000

BaseTime(o, d) == (Abs(o.lat - d.lat) + Abs(o.lng - d.lng)) \div MicroDegPerSecond

\* api.calculate_route(origin, destination); the API rounds both to 6
\* decimals and sends the request.  For a nan origin or destination the
\* service finds no route and the call returns None (a comparison with nan
\* is false, so the line modes do not apply to it)
calculate_route(mode, origin, destination) ==
    LET o == Round6(origin)
        d == Round6(destination)
    IN  CASE mode = "none_all"  -> NoneAns
          [] mode = "raise_all" -> RaiseAns
          [] IsNaNPoint(o) \/ IsNaNPoint(d) -> NoneAns
          [] mode = "none_south"  -> IF d.lat < SouthLine THEN NoneAns ELSE TimeAns(BaseTime(o, d))
          [] mode = "raise_south" -> IF d.lat < SouthLine THEN RaiseAns ELSE TimeAns(BaseTime(o, d))
          [] mode = "none_north"  -> IF o.lat > NorthLine THEN NoneAns ELSE TimeAns(BaseTime(o, d))
          [] mode = "block_north" -> IF o.lat > NorthLine THEN BlockAns ELSE TimeAns(BaseTime(o, d))
          [] OTHER -> TimeAns(BaseTime(o, d))

(***************************************************************************)
(* Cost evaluator                                                          *)
(***************************************************************************)
RECURSIVE MaxSeq(_)
MaxSeq(s) == IF s = <<>> THEN 0
             ELSE LET m == MaxSeq(Tail(s)) IN IF Head(s) > m THEN Head(s) ELSE m

\* the answers of the lookups from point to every coordinate, in order
Lookups(mode, point, coords) ==
    [i \in 1..Len(coords) |-> calculate_route(mode, Round6(point), Round6(coords[i]))]

\* a variant that rounds the total to the nearest integer
IntRounded(total2) ==
    IF total2 = NaN THEN 0
    ELSE IF total2 = Infinity THEN OverflowError
    ELSE IF total2 = Huge THEN Huge
    ELSE IF total2 > 0 THEN (total2 + 1) \div WeightScale ELSE 0

\* int(total) if total > 0 else 0, total being total2 / WeightScale: 0 for
\* nan, which is not > 0; int(inf) raises OverflowError; int(1e308) is the
\* integer 10^308, written Huge
IntIfPositive(total2) ==
    IF total2 = NaN THEN 0
    ELSE IF total2 = Infinity THEN OverflowError
    ELSE IF total2 = Huge THEN Huge
    ELSE IF total2 > 0 THEN total2 \div WeightScale ELSE 0

\* calculate_total_time(point, coordinates, weights): the weighted sum over
\* the lookups that returned a time; None and raising lookups are skipped.
\* OverflowError when the sum is inf: the exception leaves the call.
\* NoReturn when a lookup is never answered
calculate_total_time(mode, point, coords, weightsOpt) ==
    IF coords = <<>> THEN 0
    ELSE LET n == Len(coords)
             w == IF IsNone(weightsOpt) THEN Ones(n) ELSE PadWeights(Val(weightsOpt), n)
             a == Lookups(mode, point, coords)
         IN  IF \E i \in 1..n : a[i].kind = "block" THEN NoReturn
             ELSE IntIfPositive(SumWeights([i \in 1..n |->
                 IF a[i].kind = "time" THEN TimesWeight(a[i].time, w[i]) ELSE 0]))

\* calculate_pure_total_time(point, coordinates): the unweighted sum;
\* NoReturn when a lookup is never answered
calculate_pure_total_time(mode, point, coords) ==
    IF coords = <<>> THEN 0
    ELSE LET a == Lookups(mode, point, coords)
             t == SumSeq([i \in 1..Len(coords) |->
                     IF a[i].kind = "time" THEN a[i].time ELSE 0])
         IN  IF \E i \in 1..Len(coords) : a[i].kind = "block" THEN NoReturn
             ELSE IF t > 0 THEN t ELSE 0

\* a variant of the maximum that gives up, with 0, when a lookup fails
calculate_max_time_or_nothing(mode, point, coords) ==
    IF coords = <<>> THEN 0
    ELSE LET a == Lookups(mode, point, coords)
         IN  IF \E i \in 1..Len(coords) : a[i].kind = "block" THEN NoReturn
             ELSE IF \E i \in 1..Len(coords) : a[i].kind # "time" THEN 0
             ELSE MaxSeq([i \in 1..Len(coords) |-> a[i].time])

\* calculate_max_time(point, coordinates): the maximum over the lookups
\* that returned a time; NoReturn when a lookup is never answered
calculate_max_time(mode, point, coords) ==
    IF coords = <<>> THEN 0
    ELSE LET a == Lookups(mode, point, coords)
         IN  IF \E i \in 1..Len(coords) : a[i].kind = "block" THEN NoReturn
             ELSE MaxSeq([i \in 1..Len(coords) |->
                      IF a[i].kind = "time" THEN a[i].time ELSE 0])

\* a variant of the objective that prices a point from which no lookup
\* succeeded above every other point
ObjectiveUnpricedIsCostly(alg, mode, point, coords, weightsOpt) ==
    IF coords # <<>> /\ \A i \in 1..Len(coords) : Lookups(mode, point, coords)[i].kind # "time"
    THEN 1000000
    ELSE IF alg = "min_max_time"
    THEN calculate_max_time(mode, point, coords)
    ELSE calculate_total_time(mode, point, coords, weightsOpt)

\* the objective find_optimal_point evaluates for algorithm_type
Objective(alg, mode, point, coords, weightsOpt) ==
    IF alg = "min_max_time"
    THEN calculate_max_time(mode, point, coords)
    ELSE calculate_total_time(mode, point, coords, weightsOpt)


(***************************************************************************)
(* Strings                                                                 *)
(***************************************************************************)
\* A string that the program lower-cases or searches (the name of a
\* clustering method, the message of an error) is the sequence of its
\* characters.
UpperCase == <<"A", "B", "C", "D", "E", "F", "G", "H", "I", "J", "K", "L", "M", "N", "O", "P", "Q", "R", "S", "T", "U", "V", "W", "X", "Y", "Z">>
LowerCase == <<"a", "b", "c", "d", "e", "f", "g", "h", "i", "j", "k", "l", "m", "n", "o", "p", "q", "r", "s", "t", "u", "v", "w", "x", "y", "z">>

\* str.lower() on the letters A-Z
LowerChar(c) ==
    IF \E k \in 1..Len(UpperCase) : UpperCase[k] = c
    THEN LowerCase[CHOOSE k \in 1..Len(UpperCase) : UpperCase[k] = c]
    ELSE c
LowerText(text) == [k \in 1..Len(text) |-> LowerChar(text[k])]

\* the strings 'hdbscan', 'kmeans', 'dbscan', 'HDBSCAN', 'Hdbscan', 'KMeans'
\* and 'CCKM'
S_hdbscan == <<"h", "d", "b", "s", "c", "a", "n">>
S_kmeans  == <<"k", "m", "e", "a", "n", "s">>
S_dbscan  == <<"d", "b", "s", "c", "a", "n">>
S_HDBSCAN == <<"H", "D", "B", "S", "C", "A", "N">>
S_Hdbscan == <<"H", "d", "b", "s", "c", "a", "n">>
S_KMeans  == <<"K", "M", "e", "a", "n", "s">>
S_CCKM    == <<"C", "C", "K", "M">>

\* clustering_method.lower(), method.lower()
Lower(m) == LowerText(m)

(***************************************************************************)
(* Clustering preprocessor.  The labels are the answer of the clustering   *)
(* library (HDBSCAN.fit_predict, KMeans.fit_predict): one integer per      *)
(* point, -1 marking HDBSCAN noise.                                        *)
(***************************************************************************)
\* the distinct labels in order of first appearance (the iteration order of
\* the defaultdict the code fills point by point)
RECURSIVE LabelOrder(_, _)
LabelOrder(labels, seen) ==
    IF labels = <<>> THEN <<>>
    ELSE IF Head(labels) \in seen
         THEN LabelOrder(Tail(labels), seen)
         ELSE <<Head(labels)>> \o LabelOrder(Tail(labels), seen \cup {Head(labels)})

\* the elements of s at the positions carrying label l, in order
RECURSIVE Members(_, _, _)
Members(s, labels, l) ==
    IF labels = <<>> \/ s = <<>> THEN <<>>
    ELSE (IF Head(labels) = l THEN <<Head(s)>> ELSE <<>>)
         \o Members(Tail(s), Tail(labels), l)

\* clusters[label], cluster_weights[label] for every label, in LabelOrder
GroupByLabel(coords, w, labels) ==
    LET order == LabelOrder(labels, {})
    IN  [k \in 1..Len(order) |->
            [label   |-> order[k],
             coords  |-> Members(coords, labels, order[k]),
             weights |-> Members(w, labels, order[k])]]

RECURSIVE Flatten(_)
Flatten(ss) == IF ss = <<>> THEN <<>> ELSE Head(ss) \o Flatten(Tail(ss))

\* the sequences whose k-th element is drawn from the k-th set
RECURSIVE Product(_)
Product(sets) ==
    IF sets = <<>> THEN {<<>>}
    ELSE {<<h>> \o t : h \in Head(sets), t \in Product(Tail(sets))}

\* an exception e leaves the clustering
Raise(e) == [status |-> "raise", error |-> e, centers |-> <<>>, info |-> None]

\* a variant of the cluster center that weighs the cluster by the number of
\* its members
ClusterCenterCounted(g) ==
    {[coord |-> Val(c), weight |-> WeightScale * Len(g.weights)] :
        c \in calculate_centroid(g.coords, Some(g.weights))}

\* (centroid, total weight) of one cluster: the values it can take
ClusterCenter(g) ==
    {[coord |-> Val(c), weight |-> SumWeights(g.weights)] :
        c \in calculate_centroid(g.coords, Some(g.weights))}

\* zip(coordinates, weights): as long as the shorter of the two
Singletons(coords, w) ==
    [i \in 1..(IF Len(w) < Len(coords) THEN Len(w) ELSE Len(coords)) |->
        [coord |-> coords[i], weight |-> w[i]]]

\* _perform_clustering(coordinates, weights, method, param) for non-empty
\* coordinates and len(weights) = len(coordinates): the list of
\* (cluster coordinates, cluster weights)
perform_clustering(coords, w, method, param, labels) ==
    LET one == << [coords |-> coords, weights |-> w] >>
        grouped == LET g == GroupByLabel(coords, w, labels)
                   IN  [k \in 1..Len(g) |-> [coords |-> g[k].coords, weights |-> g[k].weights]]
    IN  IF coords = <<>> THEN <<>>
        ELSE CASE Lower(method) = S_hdbscan ->
                    IF Len(coords) < (IF param > 0 THEN param ELSE DefaultHdbscanParam)
                    THEN one ELSE grouped
               [] Lower(method) = S_kmeans ->
                    IF Len(coords) <= (IF param > 0 THEN param ELSE DefaultKmeansParam)
                    THEN one ELSE grouped
               [] OTHER -> one

\* the cluster centers apply_hdbscan builds from the labels: every noise
\* point on its own, every other cluster as (weighted centroid, weight sum)
HdbscanCenters(coords, w, labels) ==
    LET g == GroupByLabel(coords, w, labels)
    IN  {Flatten(s) : s \in Product([k \in 1..Len(g) |->
            IF g[k].label = -1
            THEN {Singletons(g[k].coords, g[k].weights)}
            ELSE {<<c>> : c \in ClusterCenter(g[k])}])}

\* apply_hdbscan(coordinates, weights, min_cluster_size): the lists of
\* cluster centers it can return
apply_hdbscan(coords, w, min_size, labels) ==
    IF Len(coords) < min_size THEN {Singletons(coords, w)}
    ELSE HdbscanCenters(coords, w, labels)

\* k = max(2, len(coordinates) // max_cluster_size) (line 233): the
\* division raises ZeroDivisionError for max_cluster_size = 0; the floor of
\* a quotient by a negative size is below 2
KmeansK(n, max_size) ==
    IF max_size = 0 THEN ZeroDivisionError
    ELSE IF max_size < 0 THEN 2
    ELSE IF n \div max_size > 2 THEN n \div max_size ELSE 2

\* apply_capacity_kmeans(coordinates, weights, max_cluster_size): the lists
\* of cluster centers it can return, or the exception that leaves it
apply_capacity_kmeans(coords, w, max_size, labels) ==
    IF Len(coords) <= max_size THEN {Singletons(coords, w)}
    ELSE IF KmeansK(Len(coords), max_size) = ZeroDivisionError
    THEN {Raise("ZeroDivisionError")}
    ELSE LET g == GroupByLabel(coords, w, labels)
         IN  Product([k \in 1..Len(g) |-> ClusterCenter(g[k])])


(***************************************************************************)
(* find_optimal_point: argument binding, initialisation, one probing       *)
(* iteration, the reporting pass                                           *)
(***************************************************************************)
\* self.directions, applied as (point[0] + dx * radius, point[1] + dy * radius)
directions == << <<1, 0>>, <<0, 1>>, <<-1, 0>>, <<0, -1>> >>

\* Python truthiness of a tagged argument
Truthy(a) == CASE a[1] = "none" -> FALSE
               [] a[1] = "str"  -> a[2] # <<>>
               [] OTHER         -> a[2] # 0

\* the parameters of find_optimal_point bound by a keyword call
KeywordCall(coords, weightsOpt, o, caller) ==
    [coordinates       |-> coords,
     weights           |-> weightsOpt,
     clustering_method |-> o.method,
     min_cluster_size  |-> <<"int", o.min_cluster_size>>,
     max_cluster_size  |-> o.max_cluster_size,
     search_step       |-> o.search_step,
     algorithm_type    |-> o.algorithm_type,
     caller            |-> caller]

\* the parameters of find_optimal_point bound by the call
\* find_optimal_point(coordinates, weights, search_step, algorithm_type):
\* the third and fourth positional parameters are clustering_method and
\* min_cluster_size; search_step and algorithm_type keep their defaults
PositionalCall(coords, weightsOpt, search_step, algorithm_type, caller) ==
    [coordinates       |-> coords,
     weights           |-> weightsOpt,
     clustering_method |-> <<"int", search_step>>,
     min_cluster_size  |-> <<"str", algorithm_type>>,
     max_cluster_size  |-> DefaultMaxClusterSize,
     search_step       |-> DefaultSearchStep,
     algorithm_type    |-> "total_cost",
     caller            |-> caller]

NoFrame == [coordinates |-> <<>>, weights |-> None, clustering_method |-> <<"none">>,
            min_cluster_size |-> <<"int", 0>>, max_cluster_size |-> 0,
            search_step |-> 0, algorithm_type |-> "", caller |-> ""]

\* the clustering step inside find_optimal_point (lines 354-388): the
\* outcomes [status, error, centers, info] it can have; status "skip" when
\* no clustering is done
FopClustering(f, labels) ==
    LET n  == Len(f.coordinates)
        cm == IF n > cluster_threshold /\ f.clustering_method[1] = "none"
              THEN <<"str", S_hdbscan>> ELSE f.clustering_method
        w  == Val(f.weights)
        ok(c, i) == [status |-> "ok", error |-> "", centers |-> c, info |-> Some(i)]
    IN  IF ~(Truthy(cm) /\ n > cluster_threshold)
        THEN {[status |-> "skip", error |-> "", centers |-> <<>>, info |-> None]}
        ELSE IF cm[1] = "int" THEN {Raise("AttributeError")}
        ELSE CASE Lower(cm[2]) = S_hdbscan ->
                    IF f.min_cluster_size[1] # "int" THEN {Raise("TypeError")}
                    ELSE IF IsNone(f.weights) THEN {Raise("TypeError")}
                    ELSE IF n >= f.min_cluster_size[2] /\ Len(w) < n THEN {Raise("IndexError")}
                    ELSE {ok(c, [method |-> "HDBSCAN", size |-> f.min_cluster_size[2],
                                 original_points |-> n,
                                 clusters |-> Cardinality({i \in 1..Len(c) : IsTuple(c[i].coord)})]) :
                            c \in apply_hdbscan(f.coordinates, w, f.min_cluster_size[2], labels)}
               [] Lower(cm[2]) = S_kmeans ->
                    IF f.max_cluster_size = 0 THEN {Raise("ZeroDivisionError")}
                    ELSE IF IsNone(f.weights) THEN {Raise("TypeError")}
                    ELSE IF n > f.max_cluster_size /\ Len(w) < n THEN {Raise("IndexError")}
                    ELSE {ok(c, [method |-> "Capacity Constrained K-Means",
                                 size |-> f.max_cluster_size,
                                 original_points |-> n, clusters |-> Len(c)]) :
                            c \in apply_capacity_kmeans(f.coordinates, w, f.max_cluster_size, labels)}
               [] OTHER ->
                    IF IsNone(f.weights) THEN {Raise("TypeError")}
                    ELSE {[status |-> "ok", error |-> "",
                           centers |-> Singletons(f.coordinates, w), info |-> None]}

\* the initial point (lines 386-391, 410): the centroid of the cluster
\* centers when clustering ran, of the coordinates otherwise; the values it
\* can take
InitialPoint(f, cl) ==
    IF cl.status = "ok"
    THEN calculate_centroid([i \in 1..Len(cl.centers) |-> cl.centers[i].coord],
                            Some([i \in 1..Len(cl.centers) |-> cl.centers[i].weight]))
    ELSE calculate_centroid(f.coordinates, f.weights)

\* the initial cost (lines 394-399, 413-418)
InitialCost(f, mode, point) ==
    Objective(f.algorithm_type, mode, point, f.coordinates, f.weights)

\* radius = search_step * 0.000009, in micro-degrees
InitialRadius(search_step) == search_step * MicroDegPerMeter

\* while radius >= self.min_radius
LoopCondition(rn, rd) == rn >= min_radius * rd

\* (round(current_point[0] + dx * radius, 6), round(current_point[1] + dy * radius, 6)):
\* the values the candidate can take
NewPoint(p, d, rn, rd) ==
    IF IsNaNPoint(p) THEN {NaNPoint}
    ELSE
    Points(IF d[1] = 0 THEN {Round6(p).lat}
           ELSE RoundChoices(p.lat * rd + d[1] * rn * p.den, p.den * rd),
           IF d[2] = 0 THEN {Round6(p).lng}
           ELSE RoundChoices(p.lng * rd + d[2] * rn * p.den, p.den * rd))

\* the accept test of a candidate (line 478)
Accepts(new_metric, cur_time) == new_metric < cur_time

\* a variant of the iteration that moves to the accepted candidate and keeps
\* the cost it had
ProbeWithStaleCost(f, mode, point, time, rn, rd, cand) ==
    LET cost(k) == Objective(f.algorithm_type, mode, cand[k], f.coordinates, f.weights)
        better  == {k \in 1..Len(directions) : Accepts(cost(k), time)}
        first   == CHOOSE k \in better : \A j \in better : k <= j
    IN  IF better # {}
        THEN [improved |-> TRUE, point |-> cand[first], time |-> time,
              rn |-> rn, rd |-> rd, probes |-> first]
        ELSE [improved |-> FALSE, point |-> point, time |-> time,
              rn |-> rn, rd |-> 2 * rd, probes |-> Len(directions)]

\* a variant of the iteration that evaluates all four candidates and moves
\* to the cheapest of those that are accepted
ProbeWithBest(f, mode, point, time, rn, rd, cand) ==
    LET cost(k) == Objective(f.algorithm_type, mode, cand[k], f.coordinates, f.weights)
        better  == {k \in 1..Len(directions) : Accepts(cost(k), time)}
        best    == CHOOSE k \in better :
                       \A j \in better : cost(k) < cost(j) \/ (cost(k) = cost(j) /\ k <= j)
    IN  IF better # {}
        THEN [improved |-> TRUE, point |-> cand[best], time |-> cost(best),
              rn |-> rn, rd |-> rd, probes |-> Len(directions)]
        ELSE [improved |-> FALSE, point |-> point, time |-> time,
              rn |-> rn, rd |-> 2 * rd, probes |-> Len(directions)]

\* a variant of the iteration that halves the radius whether or not a
\* candidate was accepted
ProbeWithShrinking(f, mode, point, time, rn, rd, cand) ==
    LET cost(k) == Objective(f.algorithm_type, mode, cand[k], f.coordinates, f.weights)
        better  == {k \in 1..Len(directions) : Accepts(cost(k), time)}
        first   == CHOOSE k \in better : \A j \in better : k <= j
    IN  IF better # {}
        THEN [improved |-> TRUE, point |-> cand[first], time |-> cost(first),
              rn |-> rn, rd |-> 2 * rd, probes |-> first]
        ELSE [improved |-> FALSE, point |-> point, time |-> time,
              rn |-> rn, rd |-> 2 * rd, probes |-> Len(directions)]

\* one iteration of the while loop (lines 451-493) for the candidates
\* cand[1..4]: the directions are tried in order, the first accepted
\* candidate ends the iteration; without one the radius is halved.  A
\* candidate whose evaluation raises OverflowError, or is never answered,
\* ends the iteration where it is evaluated: the record then has that
\* outcome as its time and nothing is assigned
IterationEnd(cost, point, time, rn, rd, cand) ==
    LET left    == {k \in 1..Len(directions) : cost[k] \in {OverflowError, NoReturn}}
        better  == {k \in 1..Len(directions) : Accepts(cost[k], time)} \ left
        ends    == left \cup better
        first   == CHOOSE k \in ends : \A j \in ends : k <= j
    IN  IF ends # {} /\ first \in left
        THEN [improved |-> FALSE, point |-> point, time |-> cost[first],
              rn |-> rn, rd |-> rd, probes |-> first]
        ELSE IF ends # {}
        THEN [improved |-> TRUE, point |-> cand[first], time |-> cost[first],
              rn |-> rn, rd |-> rd, probes |-> first]
        ELSE [improved |-> FALSE, point |-> point, time |-> time,
              rn |-> rn, rd |-> 2 * rd, probes |-> Len(directions)]

\* the iteration for the objective of each of its candidates (lines 462-470)
ProbeWith(f, mode, point, time, rn, rd, cand) ==
    IterationEnd([k \in 1..Len(directions) |->
                     Objective(f.algorithm_type, mode, cand[k], f.coordinates, f.weights)],
                 point, time, rn, rd, cand)


\* a variant of the entry that reports a failed lookup as 0 seconds
TimeEntryZero(mode, point, coords, w, i) ==
    LET a == calculate_route(mode, point, coords[i])
    IN  [point_index    |-> i - 1,
         coordinates    |-> coords[i],
         time_seconds   |-> IF a.kind = "time" THEN Some(a.time) ELSE Some(0),
         time_formatted |-> "formatted",
         weight         |-> w[i]]
\* one entry of individual_times
TimeEntry(mode, point, coords, w, i) ==
    LET a == calculate_route(mode, point, coords[i])
    IN  [point_index    |-> i - 1,
         coordinates    |-> coords[i],
         time_seconds   |-> IF a.kind = "time" THEN Some(a.time) ELSE None,
         time_formatted |-> CASE a.kind = "time" -> "formatted"
                              [] a.kind = "none" -> "unavailable"
                              [] OTHER           -> "error",
         weight         |-> w[i]]

\* a variant of the per-location pass that lets a raising lookup escape
IndividualTimesAbort(mode, point, coords, weightsOpt) ==
    LET n == Len(coords)
    IN  IF n = 0 THEN [status |-> "ok", error |-> "", times |-> <<>>, calls |-> 0]
        ELSE IF IsNone(weightsOpt)
             THEN [status |-> "raise", error |-> "TypeError", times |-> <<>>, calls |-> 1]
        ELSE IF Len(Val(weightsOpt)) < n
             THEN [status |-> "raise", error |-> "IndexError", times |-> <<>>,
                   calls |-> Len(Val(weightsOpt)) + 1]
        ELSE IF \E i \in 1..n : calculate_route(mode, point, coords[i]).kind = "raise"
             THEN [status |-> "raise", error |-> "RuntimeError", times |-> <<>>, calls |-> 1]
        ELSE [status |-> "ok", error |-> "",
              times  |-> [i \in 1..n |-> TimeEntry(mode, point, coords, Val(weightsOpt), i)],
              calls  |-> n]
\* the per-location pass (lines 504-545, 744-785): one lookup and one entry
\* per coordinate; weights[i] is read for every entry, so weights = None
\* raises TypeError and a weight list that is too short raises IndexError
\* (both inside the except handler, hence out of the search)
IndividualTimes(mode, point, coords, weightsOpt) ==
    LET n == Len(coords)
    IN  IF n = 0 THEN [status |-> "ok", error |-> "", times |-> <<>>, calls |-> 0]
        ELSE IF IsNone(weightsOpt)
             THEN [status |-> "raise", error |-> "TypeError", times |-> <<>>, calls |-> 1]
        ELSE IF Len(Val(weightsOpt)) < n
             THEN [status |-> "raise", error |-> "IndexError", times |-> <<>>,
                   calls |-> Len(Val(weightsOpt)) + 1]
        ELSE [status |-> "ok", error |-> "",
              times  |-> [i \in 1..n |-> TimeEntry(mode, point, coords, Val(weightsOpt), i)],
              calls  |-> n]

(***************************************************************************)
(* State                                                                   *)
(***************************************************************************)
VARIABLES
    coordinates,      \* the caller's coordinate list
    weights,          \* the caller's weight list, or None
    opts,             \* the caller's options and the entry point called
    env,              \* the oracle mode, the clustering library's labels,
                      \* the reverse lookup's answer
    pc,               \* Start, Running, Initializing, InitialCost, Probing,
                      \* Iterating, Reporting, PureTotal, Converged,
                      \* Returned, ReturnedNone, Raised, Formatting,
                      \* Formatted, Geocoding, GeocodingNone, Geocoded,
                      \* Done, Blocked
    made,             \* the route lookups made by the block of lookups in
                      \* progress (a cost evaluation, the candidates of an
                      \* iteration, the reporting passes)
    new_points,       \* the candidates new_point of the iteration in
                      \* progress, in direction order
    frame,            \* the parameters find_optimal_point was called with
    clusters,         \* find_optimal_point_with_clustering: clusters
    initial_point,    \* the centroid the search started from
    initial_time,     \* the cost computed at the initial point
    current_point,
    current_time,
    radiusNum,        \* radius = radiusNum / radiusDen micro-degrees
    radiusDen,
    search_radius,    \* self.search_radius, micro-degrees
    iteration_count,
    calculation_logs,
    clustering_info,
    api_call_count,   \* MapAPI.api_call_count
    fop_result,       \* what find_optimal_point returned
    result,           \* what the entry point returned
    error,            \* the exception raised, "" for none
    formatted,        \* None, the address format_result was answered,
                      \* the text it returned, or the error that left it
    signals,          \* CalculationThread: the signals emitted, in order
    threads,          \* GatheringPointApp: the CalculationThreads started
    finders,          \* the OptimalPointFinder instances created
    apis,             \* the MapAPI instances created
    calculation_thread, \* GatheringPointApp.calculation_thread, 0 for None
    locations,        \* GatheringPointApp.locations, in insertion order
    request           \* MapAPI._handle_api_request: position, retries,
                      \* last_error, the attempts made and how it ended

vars == <<coordinates, weights, opts, env, pc, made, new_points, frame, clusters, initial_point,
          initial_time, current_point, current_time, radiusNum, radiusDen,
          search_radius, iteration_count, calculation_logs, clustering_info,
          api_call_count, fop_result, result, error, formatted, signals,
          threads, finders, apis, calculation_thread, locations,
          request>>

inputs == <<coordinates, weights, opts, env>>
search == <<initial_point, initial_time, current_point, current_time, radiusNum,
            radiusDen, search_radius, iteration_count, calculation_logs,
            clustering_info>>
position == <<made, new_points>>
app == <<threads, finders, apis, calculation_thread, locations, request>>


(***************************************************************************)
(* Inputs.  Every behaviour is one call of one entry point:                *)
(*   run                                 CalculationThread.run, with the   *)
(*                                       arguments the application passes  *)
(*                                       (weights that are not <= 0, a     *)
(*                                       positive search step)             *)
(*   find_optimal_point                  a direct keyword call             *)
(*   find_optimal_point_with_clustering  a direct call                     *)
(***************************************************************************)
\* the largest number of locations of the enumerated small inputs
MaxN == 3
\* self.search_radius = 0.01 degrees, in micro-degrees
InitialSearchRadius == 10000

\* the i-th location of the pool, micro-degrees
Loc(i) == Pt((i * 2300) % 4100, (i * i * 1100) % 5900)
Locs(n) == [i \in 1..n |-> Loc(i)]
\* one location more than the clustering threshold
BigN == cluster_threshold + 1

\* weights: -1, 0 and 1.5 (scaled by WeightScale); 1.0 comes from the
\* defaults, the padding and the uniform lists
WeightPool == {-2, 0, 3}
Algorithms == {"total_cost", "min_max_time"}

\* the uniform list and one list of distinct positive weights
PositiveLists(n) == {Some(Ones(n)), Some([i \in 1..n |-> 2 + (i % 2)])}

\* lists holding a weight that is inf or nan: float('inf') and float('nan')
\* pass the application's guard `if weight <= 0` (main.py lines 390-391)
NonFiniteLists(n) ==
    IF n = 0 THEN {} ELSE {Some([Ones(n) EXCEPT ![n] = x]) : x \in {Infinity, NaN}}

\* the weight lists the application can pass for n locations
AppLists(n) == PositiveLists(n) \cup NonFiniteLists(n)

\* None, the positive lists of the right length, the uniform list with one
\* weight replaced by a weight of WeightPool, and the uniform lists one too
\* short and one too long
WeightLists(n) ==
    {None} \cup PositiveLists(n)
    \cup {Some([Ones(n) EXCEPT ![k] = x]) : k \in 1..n, x \in WeightPool}
    \cup {Some(Ones(m)) : m \in {n + 1} \cup ({n - 1} \ {-1})}

NoLabels == <<>>
\* a labelling is canonical when its non-noise labels first appear in
\* increasing order 0, 1, ... (the numbering of the labels is immaterial)
Canonical(l) ==
    \A i \in 1..Len(l) : l[i] > 0 => \E j \in 1..(i - 1) : l[j] = l[i] - 1
Count(l, x) == Cardinality({i \in 1..Len(l) : l[i] = x})

\* the labellings HDBSCAN can answer: noise, or clusters of at least
\* min_cluster_size points
HdbscanLabels(n, min_size) ==
    {l \in [1..n -> -1..1] :
        Canonical(l) /\ \A x \in 0..1 : Count(l, x) = 0 \/ Count(l, x) >= min_size}

\* the labellings KMeans(n_clusters = k) can answer: k non-empty clusters
KmeansLabels(n, k) ==
    {l \in [1..n -> 0..(k - 1)] : Canonical(l) /\ \A x \in 0..(k - 1) : Count(l, x) > 0}

\* the labellings the library can answer to _perform_clustering
LabelsFor(method, param, n) ==
    CASE Lower(method) = S_hdbscan ->
            IF n < (IF param > 0 THEN param ELSE DefaultHdbscanParam)
            THEN {NoLabels} ELSE HdbscanLabels(n, IF param > 0 THEN param ELSE DefaultHdbscanParam)
      [] Lower(method) = S_kmeans ->
            IF n <= (IF param > 0 THEN param ELSE DefaultKmeansParam)
            THEN {NoLabels}
            ELSE KmeansLabels(n, KmeansK(n, IF param > 0 THEN param ELSE DefaultKmeansParam))
      [] OTHER -> {NoLabels}

Options(entry, method, param, min_size, max_size, step, alg) ==
    [entry |-> entry, method |-> method, param |-> param,
     min_cluster_size |-> min_size, max_cluster_size |-> max_size,
     search_step |-> step, algorithm_type |-> alg]

Environment(mode, labels, reverse) ==
    [oracle |-> mode, labels |-> labels, reverse |-> reverse]

Input(c, w, o, e) == [coordinates |-> c, weights |-> w, opts |-> o, env |-> e]

\* direct keyword calls of find_optimal_point on small inputs
FopSteps == {-9, 0, 11, 12, 23, 100}
FopInputs ==
    UNION {
        {Input(Locs(n), w,
               Options("find_optimal_point", <<"none">>, 0, DefaultHdbscanParam,
                       DefaultMaxClusterSize, step, alg),
               Environment(mode, NoLabels, "none")) :
            w \in WeightLists(n), step \in FopSteps, alg \in Algorithms,
            mode \in OracleModes} :
        n \in 0..MaxN}

\* direct calls of find_optimal_point_with_clustering on small inputs
ClusterSteps == {12}
ClusterOracles == {"ok", "none_all", "raise_south"}
ClusterChoices == {<<S_HDBSCAN, 0>>, <<S_HDBSCAN, 2>>, <<S_kmeans, 0>>,
                   <<S_KMeans, 2>>, <<S_kmeans, 1>>, <<S_CCKM, 5>>}
FopwcInputs ==
    UNION {
        {Input(Locs(n), w,
               Options("find_optimal_point_with_clustering", <<"str", mp[1]>>, mp[2],
                       DefaultHdbscanParam, DefaultMaxClusterSize, step, alg),
               Environment(mode, labels, "none")) :
            w \in WeightLists(n), labels \in LabelsFor(mp[1], mp[2], n),
            step \in ClusterSteps, alg \in Algorithms, mode \in ClusterOracles} :
        n \in 0..MaxN, mp \in ClusterChoices}

\* CalculationThread.run as GatheringPointApp.calculate_optimal_point starts
\* it: clustering_method None, 'hdbscan' or 'kmeans', a parameter >= 2
\* (and a thread constructed with no coordinates, which the application
\* itself never starts)
RunChoices == {<<S_hdbscan, 2>>, <<S_kmeans, 2>>}
ReverseAnswers == {"address", "none", "raise"}
RunOracles == {"ok", "none_north"}
RunInputs ==
    UNION {
        {Input(Locs(n), w,
               Options("run", <<"none">>, 0, DefaultHdbscanParam, DefaultMaxClusterSize,
                       step, alg),
               Environment(mode, NoLabels, rev)) :
            w \in AppLists(n), step \in ClusterSteps, alg \in Algorithms,
            mode \in RunOracles, rev \in ReverseAnswers} :
        n \in 0..MaxN}
    \cup
    UNION {
        {Input(Locs(n), w,
               Options("run", <<"str", mp[1]>>, mp[2], DefaultHdbscanParam,
                       DefaultMaxClusterSize, step, alg),
               Environment(mode, labels, rev)) :
            w \in AppLists(n), labels \in LabelsFor(mp[1], mp[2], n),
            step \in ClusterSteps, alg \in Algorithms,
            mode \in RunOracles, rev \in ReverseAnswers} :
        n \in 1..MaxN, mp \in RunChoices}

\* inputs with more locations than the clustering threshold
BigWeights == {None, Some(Ones(BigN)), Some([i \in 1..BigN |-> 2 + (i % 2)]),
               Some(Ones(BigN - 1))}
BigLabels(k) == [i \in 1..BigN |-> i % k]
NoisyLabels == [i \in 1..BigN |-> IF i % 4 = 0 THEN -1 ELSE i % 2]
AllNoise == [i \in 1..BigN |-> -1]
BigOracles == {"ok", "raise_south"}
BigFopChoices ==
    {<< <<"none">>, 5, 10, BigLabels(3)>>,
     << <<"str", S_hdbscan>>, 5, 10, NoisyLabels>>,
     << <<"str", S_Hdbscan>>, 5, 10, AllNoise>>,
     << <<"str", S_hdbscan>>, 25, 10, NoLabels>>,
     << <<"str", S_kmeans>>, 5, 10, BigLabels(2)>>,
     << <<"str", S_kmeans>>, 5, 30, NoLabels>>,
     << <<"str", S_kmeans>>, 5, 0, NoLabels>>,
     << <<"str", S_dbscan>>, 5, 10, NoLabels>>}
BigFopInputs ==
    {Input(Locs(BigN), w,
           Options("find_optimal_point", c[1], 0, c[2], c[3], step, alg),
           Environment(mode, c[4], "none")) :
        w \in BigWeights, c \in BigFopChoices, step \in ClusterSteps,
        alg \in Algorithms, mode \in BigOracles}
BigClusterChoices ==
    {<<S_hdbscan, 5, BigLabels(3)>>, <<S_hdbscan, 5, NoisyLabels>>,
     <<S_hdbscan, 2, AllNoise>>, <<S_kmeans, 10, BigLabels(2)>>,
     <<S_kmeans, 2, BigLabels(10)>>, <<S_kmeans, 30, NoLabels>>}
BigClusterInputs ==
    {Input(Locs(BigN), Some(w),
           Options(entry, <<"str", c[1]>>, c[2], DefaultHdbscanParam,
                   DefaultMaxClusterSize, step, alg),
           Environment(mode, c[3], "address")) :
        w \in {Ones(BigN), [i \in 1..BigN |-> 2 + (i % 2)]},
        entry \in {"run", "find_optimal_point_with_clustering"},
        c \in BigClusterChoices, step \in ClusterSteps, alg \in Algorithms,
        mode \in BigOracles}
BigRunInputs ==
    {Input(Locs(BigN), Some(Ones(BigN)),
           Options("run", <<"none">>, 0, DefaultHdbscanParam, DefaultMaxClusterSize,
                   step, alg),
           Environment(mode, NoLabels, "address")) :
        step \in ClusterSteps, alg \in Algorithms, mode \in BigOracles}

\* direct keyword calls of find_optimal_point that name a clustering method
\* for a list below the clustering threshold
ExplicitFopInputs ==
    {Input(Locs(MaxN), w,
           Options("find_optimal_point", <<"str", method>>, 0, 2, 2, DefaultSearchStep,
                   "total_cost"),
           Environment(mode, NoLabels, "none")) :
        w \in PositiveLists(MaxN), method \in {S_hdbscan, S_kmeans}, mode \in BigOracles}

\* calls with a weight of 1e308, which is finite and positive: the last
\* weight, or every weight
HugeLists(n) ==
    {Some([Ones(n) EXCEPT ![n] = Huge])}
    \cup (IF n > 1 THEN {Some([i \in 1..n |-> Huge])} ELSE {})
HugeOracles == {"ok", "none_all", "none_south"}
HugeInputs ==
    UNION {
        {Input(Locs(n), w,
               Options(entry, <<"none">>, 0, DefaultHdbscanParam, DefaultMaxClusterSize,
                       step, alg),
               Environment(mode, NoLabels, "address")) :
            w \in HugeLists(n), entry \in {"find_optimal_point", "run"},
            step \in ClusterSteps, alg \in Algorithms, mode \in HugeOracles} :
        n \in 1..2}

\* calls whose routing service leaves lookups unanswered, and runs whose
\* reverse lookup is left unanswered
BlockInputs ==
    UNION {
        {Input(Locs(n), Some(Ones(n)),
               Options(entry, <<"none">>, 0, DefaultHdbscanParam, DefaultMaxClusterSize,
                       DefaultSearchStep, alg),
               Environment(mode, NoLabels, "address")) :
            entry \in {"find_optimal_point", "run"}, alg \in Algorithms,
            mode \in BlockingModes} :
        n \in {1, MaxN}}
    \cup
    {Input(Locs(1), Some(Ones(1)),
           Options("run", <<"none">>, 0, DefaultHdbscanParam, DefaultMaxClusterSize,
                   DefaultSearchStep, alg),
           Environment("ok", NoLabels, "block")) : alg \in Algorithms}

\* the smallest step calculate_auto_step returns: max(10, ...) (main.py
\* line 697)
MinAutoStep == 10

\* a run started with the smallest automatic step, which needs two
\* locations or more, and the same call of the clustering entry point
AutoStepInputs ==
    UNION {
        {Input(Locs(n), Some(Ones(n)),
               Options("run", <<"none">>, 0, DefaultHdbscanParam, DefaultMaxClusterSize,
                       MinAutoStep, alg),
               Environment("ok", NoLabels, "address")),
         Input(Locs(n), Some(Ones(n)),
               Options("find_optimal_point_with_clustering", <<"str", S_hdbscan>>,
                       DefaultHdbscanParam, DefaultHdbscanParam, DefaultMaxClusterSize,
                       MinAutoStep, alg),
               Environment("ok", NoLabels, "none"))} :
        n \in 2..MaxN, alg \in Algorithms}

Inputs == FopInputs \cup FopwcInputs \cup RunInputs
          \cup BigFopInputs \cup BigClusterInputs \cup BigRunInputs
          \cup ExplicitFopInputs \cup HugeInputs \cup BlockInputs \cup AutoStepInputs

\* no request is being handled
NoRequest == [pc |-> "idle", retries |-> 0, last_error |-> None, calls |-> <<>>,
              outcome |-> None]

\* the state before the call of the entry point, for the input i
InitFor(i) ==
    /\ coordinates = i.coordinates
    /\ weights = i.weights
    /\ opts = i.opts
    /\ env = i.env
    /\ pc = "Start"
    /\ made = 0
    /\ new_points = <<>>
    /\ frame = NoFrame
    /\ clusters = <<>>
    /\ initial_point = None
    /\ initial_time = 0
    /\ current_point = None
    /\ current_time = 0
    /\ radiusNum = 0
    /\ radiusDen = 1
    /\ search_radius = InitialSearchRadius
    /\ iteration_count = 0
    /\ calculation_logs = <<>>
    /\ clustering_info = None
    /\ api_call_count = 0
    /\ fop_result = None
    /\ result = None
    /\ error = ""
    /\ formatted = None
    /\ signals = <<>>
    /\ threads = <<>>
    /\ finders = <<>>
    /\ apis = <<>>
    /\ calculation_thread = 0
    /\ locations = <<>>
    /\ request = NoRequest

Init == \E i \in Inputs : InitFor(i)

(***************************************************************************)
(* Actions                                                                 *)
(***************************************************************************)
\* find_optimal_point_with_clustering up to its call of find_optimal_point
\* (lines 699-733): the outcomes [status, error, clusters, frame] it can
\* have.  A cluster whose weights sum to 0 has a numpy array as centroid,
\* and `if centroid:` raises ValueError on it.
ClusteringEntry(coords, weightsOpt, o, labels) ==
    LET w  == IF IsNone(weightsOpt) THEN Ones(Len(coords)) ELSE Val(weightsOpt)
        cl == perform_clustering(coords, w, o.method[2], o.param, labels)
        fail(e) == [status |-> "raise", error |-> e, clusters |-> <<>>, frame |-> NoFrame]
    IN  IF coords = <<>> THEN {fail("ValueError: empty coordinates")}
        ELSE IF Len(coords) # Len(w) THEN {fail("ValueError: length mismatch")}
        ELSE IF \E k \in 1..Len(cl) : SumWeights(cl[k].weights) = 0
             THEN {fail("ValueError: ambiguous truth value")}
        ELSE {[status   |-> "ok", error |-> "", clusters |-> cl,
               frame    |-> PositionalCall(
                               [k \in 1..Len(cl) |-> cen[k].coord],
                               Some([k \in 1..Len(cl) |-> cen[k].weight]),
                               o.search_step, o.algorithm_type, "clustering")] :
                cen \in Product([k \in 1..Len(cl) |-> ClusterCenter(cl[k])])}

\* the caller's weight list after calculate_centroid, calculate_total_time,
\* calculate_pure_total_time or calculate_max_time ran on it
WeightsAfterCall ==
    IF IsNone(weights) THEN weights
    ELSE Some(ArgumentAfterPadding(Val(weights), Len(coordinates)))

\* CalculationThread.run from its first line to its first pause (main.py
\* lines 41-47): progress 10, then time.sleep(0.3)
RunStart ==
    /\ pc = "Start"
    /\ opts.entry = "run"
    /\ pc' = "Running"
    /\ signals' = Append(signals, "progress_10")
    /\ UNCHANGED <<inputs, position, frame, clusters, search, api_call_count, fop_result,
                   result, error, formatted, app>>

\* the entry point is called and runs up to the body of find_optimal_point;
\* run emits progress 30 or 40 before it calls (main.py lines 50-63)
Call ==
    /\ pc = IF opts.entry = "run" THEN "Running" ELSE "Start"
    /\ LET clustered == opts.entry = "find_optimal_point_with_clustering"
                        \/ (opts.entry = "run" /\ Truthy(opts.method))
       IN  /\ signals' = IF opts.entry = "run"
                         THEN Append(signals, IF clustered THEN "progress_30"
                                              ELSE "progress_40")
                         ELSE signals
           /\ IF clustered
              THEN \E ce \in ClusteringEntry(coordinates, weights, opts, env.labels) :
                   /\ pc' = IF ce.status = "ok" THEN "Initializing" ELSE "Raised"
                   /\ error' = ce.error
                   /\ clusters' = ce.clusters
                   /\ frame' = ce.frame
              ELSE /\ pc' = "Initializing"
                   /\ error' = ""
                   /\ clusters' = clusters
                   /\ frame' = IF opts.entry = "run"
                               THEN PositionalCall(coordinates, weights, opts.search_step,
                                                   opts.algorithm_type, "run")
                               ELSE KeywordCall(coordinates, weights, opts, "direct")
    /\ UNCHANGED <<inputs, position, search, api_call_count, fop_result, result, formatted, app>>

\* find_optimal_point from its first line to the first lookup of the initial
\* cost (lines 344-391, 410): the clustering and the initial centroid
Initialize ==
    /\ pc = "Initializing"
    /\ \E cl \in FopClustering(frame, env.labels) : \E p0 \in InitialPoint(frame, cl) :
           IF frame.coordinates = <<>>
           THEN /\ pc' = "ReturnedNone"
                /\ UNCHANGED <<search, error>>
           ELSE IF cl.status = "raise" \/ IsNone(p0)
           THEN /\ pc' = "Raised"
                /\ error' = IF cl.status = "raise" THEN cl.error ELSE "TypeError"
                /\ UNCHANGED search
           ELSE /\ pc' = "InitialCost"
                /\ initial_point' = p0
                /\ current_point' = p0
                /\ clustering_info' = cl.info
                /\ UNCHANGED <<initial_time, current_time, radiusNum, radiusDen,
                               search_radius, iteration_count, calculation_logs, error>>
    /\ weights' = WeightsAfterCall
    /\ UNCHANGED <<coordinates, opts, env, position, frame, clusters, api_call_count,
                   fop_result, result, signals, formatted, app>>

\* the positions at which the search makes route lookups
LookupPositions == {"InitialCost", "Iterating", "Reporting", "PureTotal", "Converged"}

\* the lookups of the per-location pass after the loop (lines 504-545), up
\* to the one at which the pass raised
ReportingLookups ==
    IndividualTimes(env.oracle, Val(current_point), frame.coordinates, frame.weights).calls

\* the objective find_optimal_point_with_clustering computes over the
\* caller's locations at the point the search returned (lines 737-740)
RecomputedTotal ==
    Objective(opts.algorithm_type, env.oracle, Val(fop_result).optimal_point, coordinates,
              IF IsNone(weights) THEN Some(Ones(Len(coordinates))) ELSE weights)

\* the lookups find_optimal_point_with_clustering makes after its search
\* (lines 737-788): the objective, the per-location pass and the pure total
\* over the caller's locations; the objective only when it raised
RecomputeLookups ==
    IF frame.caller # "clustering" THEN 0
    ELSE IF RecomputedTotal = OverflowError THEN Len(coordinates)
    ELSE 3 * Len(coordinates)

\* the objective of the candidate point (lines 462-470)
CandidateCost(point) ==
    Objective(frame.algorithm_type, env.oracle, point, frame.coordinates, frame.weights)

\* the block of lookups in progress has made its last lookup.  An iteration
\* evaluates its candidates in direction order and stops after the first
\* that is accepted (break, line 483) or whose evaluation raised
BlockDone ==
    LET n == Len(frame.coordinates)
    IN  CASE pc = "InitialCost" -> made = n
          [] pc = "Iterating"   ->
                /\ made > 0
                /\ made % n = 0
                /\ \/ made = Len(directions) * n
                   \/ CandidateCost(new_points[made \div n]) = OverflowError
                   \/ Accepts(CandidateCost(new_points[made \div n]), current_time)
          [] pc = "Reporting"   -> made = ReportingLookups
          [] pc = "PureTotal"   -> made = Len(frame.coordinates)
          [] pc = "Converged"   -> made = RecomputeLookups
          [] OTHER              -> TRUE

\* the origin and the destination of the lookup the search makes next
NextLookup ==
    LET n == Len(frame.coordinates)
    IN  CASE pc = "Iterating" ->
                [origin      |-> new_points[(made \div n) + 1],
                 destination |-> frame.coordinates[(made % n) + 1]]
          [] pc = "Converged" ->
                [origin      |-> Val(fop_result).optimal_point,
                 destination |-> coordinates[(made % Len(coordinates)) + 1]]
          [] OTHER ->
                [origin      |-> Val(current_point),
                 destination |-> frame.coordinates[(made % n) + 1]]

\* what a lookup with the answer a adds to MapAPI.api_call_count: the API
\* counts the lookups it answers, with a time or with None (map_api.py line
\* 52); a lookup that raises out of the API object was not counted
\* (MapAPI.calculate_route, lines 111-113)
Counted(a) == IF a.kind = "raise" THEN 0 ELSE 1

\* one route lookup of the search: self.api.calculate_route(point, coord)
\* (lines 88, 130, 169, 509, 749)
Lookup ==
    /\ pc \in LookupPositions
    /\ ~BlockDone
    /\ calculate_route(env.oracle, NextLookup.origin, NextLookup.destination).kind # "block"
    /\ made' = made + 1
    /\ api_call_count' = api_call_count
           + Counted(calculate_route(env.oracle, NextLookup.origin, NextLookup.destination))
    /\ UNCHANGED <<inputs, pc, new_points, frame, clusters, search, fop_result, result,
                   error, signals, formatted, app>>

\* a route lookup that is never answered: _handle_api_request has counted
\* the request (map_api.py line 52) and the request function waits in
\* requests.get, which is called without a timeout (lines 285, 830).  The
\* search makes no further step
LookupBlocks ==
    /\ pc \in LookupPositions
    /\ ~BlockDone
    /\ calculate_route(env.oracle, NextLookup.origin, NextLookup.destination).kind = "block"
    /\ pc' = "Blocked"
    /\ api_call_count' = api_call_count + 1
    /\ UNCHANGED <<inputs, made, new_points, frame, clusters, search, fop_result, result,
                   error, signals, formatted, app>>

\* find_optimal_point from the end of the initial cost to the loop (lines
\* 394-449): the initial cost, the radius and self.search_radius
StartSearch ==
    /\ pc = "InitialCost"
    /\ BlockDone
    /\ made' = 0
    /\ LET t0 == InitialCost(frame, env.oracle, Val(current_point))
       IN  IF t0 = OverflowError
           THEN /\ pc' = "Raised"
                /\ error' = "OverflowError"
                /\ UNCHANGED <<initial_time, current_time, radiusNum, radiusDen,
                               search_radius, calculation_logs>>
           ELSE /\ pc' = "Probing"
                /\ initial_time' = t0
                /\ current_time' = t0
                /\ radiusNum' = InitialRadius(frame.search_step)
                /\ radiusDen' = 1
                /\ search_radius' = InitialRadius(frame.search_step)
                /\ calculation_logs' = <<"search_step", "max_distance">>
                /\ UNCHANGED error
    /\ weights' = WeightsAfterCall
    /\ UNCHANGED <<coordinates, opts, env, new_points, frame, clusters, initial_point,
                   current_point, iteration_count, clustering_info, api_call_count,
                   fop_result, result, signals, formatted, app>>

\* the values new_point takes in the iteration that starts at the point p
\* with the current radius, in direction order (line 459)
Candidates(p) ==
    Product([k \in 1..Len(directions) |-> NewPoint(p, directions[k], radiusNum, radiusDen)])

\* the loop test holds and an iteration starts (lines 450-453)
EnterIteration ==
    /\ pc = "Probing"
    /\ LoopCondition(radiusNum, radiusDen)
    /\ pc' = "Iterating"
    /\ iteration_count' = iteration_count + 1
    /\ new_points' \in Candidates(Val(current_point))
    /\ UNCHANGED <<inputs, made, frame, clusters, initial_point, initial_time,
                   current_point, current_time, radiusNum, radiusDen, search_radius,
                   calculation_logs, clustering_info, api_call_count, fop_result, result,
                   error, signals, formatted, app>>

\* the end of an iteration of the while loop (lines 478-493): the move to
\* the accepted candidate, or the halving of the radius; or the
\* OverflowError of the candidate evaluated last, which leaves the search
Probe ==
    /\ pc = "Iterating"
    /\ BlockDone
    /\ made' = 0
    /\ new_points' = <<>>
    /\ \E r \in {ProbeWith(frame, env.oracle, Val(current_point), current_time,
                             radiusNum, radiusDen, new_points)} :
           IF r.time = OverflowError
           THEN /\ pc' = "Raised"
                /\ error' = "OverflowError"
                /\ UNCHANGED <<current_point, current_time, radiusNum, radiusDen>>
           ELSE /\ pc' = "Probing"
                /\ current_point' = Some(r.point)
                /\ current_time' = r.time
                /\ radiusNum' = r.rn
                /\ radiusDen' = r.rd
                /\ UNCHANGED error
    /\ weights' = WeightsAfterCall
    /\ UNCHANGED <<coordinates, opts, env, frame, clusters, initial_point, initial_time,
                   search_radius, iteration_count, calculation_logs, clustering_info,
                   api_call_count, fop_result, result, signals, formatted, app>>

\* the loop test fails (line 450): the search goes on to its report
EndLoop ==
    /\ pc = "Probing"
    /\ ~LoopCondition(radiusNum, radiusDen)
    /\ pc' = "Reporting"
    /\ UNCHANGED <<inputs, position, frame, clusters, search, api_call_count, fop_result,
                   result, error, signals, formatted, app>>

\* the dictionary find_optimal_point returns (lines 558-565)
FopResult(point, time, pure, info, logs, times) ==
    [optimal_point    |-> point,
     total_time       |-> time,
     pure_total_time  |-> pure,
     clustering_info  |-> info,
     calculation_logs |-> logs,
     individual_times |-> times]

\* find_optimal_point from the end of the per-location pass to the first
\* lookup of the pure total (lines 546-555): the five final entries of the
\* calculation log; or the error the per-location pass raised
LogResult ==
    /\ pc = "Reporting"
    /\ BlockDone
    /\ made' = 0
    /\ LET it == IndividualTimes(env.oracle, Val(current_point), frame.coordinates,
                                 frame.weights)
       IN  IF it.status = "raise"
           THEN /\ pc' = "Raised"
                /\ error' = it.error
                /\ UNCHANGED calculation_logs
           ELSE /\ pc' = "PureTotal"
                /\ calculation_logs' = calculation_logs \o
                        <<"done", "optimal_point", "total_time", "iteration_count",
                          "individual_times">>
                /\ UNCHANGED error
    /\ UNCHANGED <<inputs, new_points, frame, clusters, initial_point, initial_time,
                   current_point, current_time, radiusNum, radiusDen, search_radius,
                   iteration_count, clustering_info, api_call_count, fop_result, result,
                   signals, formatted, app>>

\* the end of find_optimal_point: the pure total and the returned dictionary
\* (lines 555-565)
Converge ==
    /\ pc = "PureTotal"
    /\ BlockDone
    /\ pc' = "Converged"
    /\ made' = 0
    /\ fop_result' = Some(FopResult(
            Val(current_point), current_time,
            calculate_pure_total_time(env.oracle, Val(current_point), frame.coordinates),
            clustering_info, calculation_logs,
            IndividualTimes(env.oracle, Val(current_point), frame.coordinates,
                            frame.weights).times))
    /\ weights' = WeightsAfterCall
    /\ UNCHANGED <<coordinates, opts, env, new_points, frame, clusters, search,
                   api_call_count, result, error, signals, formatted, app>>

\* a variant that reports the objective over the cluster centers the search
\* ran on
ReportedTotalOfClusters(alg, mode, point, coords, w) ==
    Objective(alg, mode, point, frame.coordinates, frame.weights)
\* the objective find_optimal_point_with_clustering reports (lines 737-740)
ReportedTotal(alg, mode, point, coords, w) ==
    Objective(alg, mode, point, coords, Some(w))

\* the pure total find_optimal_point_with_clustering reports (line 788)
ReportedPure(mode, point, coords) == calculate_pure_total_time(mode, point, coords)

\* the result of find_optimal_point_with_clustering: the dictionary of
\* find_optimal_point with total_time, pure_total_time and individual_times
\* replaced and the clustering fields added (lines 735-799)
ClusteringResult(r, mode, coords, weightsOpt, o, cl) ==
    LET w == IF IsNone(weightsOpt) THEN Ones(Len(coords)) ELSE Val(weightsOpt)
    IN  [optimal_point     |-> r.optimal_point,
         total_time        |-> ReportedTotal(o.algorithm_type, mode, r.optimal_point, coords, w),
         pure_total_time   |-> ReportedPure(mode, r.optimal_point, coords),
         clustering_info   |-> r.clustering_info,
         calculation_logs  |-> r.calculation_logs,
         individual_times  |-> IndividualTimes(mode, r.optimal_point, coords, Some(w)).times,
         clusters          |-> cl,
         cluster_count     |-> Len(cl),
         clustering_method |-> o.method[2],
         clustering_param  |-> o.param]

\* find_optimal_point returns to its caller; find_optimal_point_with_clustering
\* returns the dictionary with the numbers it recomputed, or the
\* OverflowError of its objective leaves it
Return ==
    /\ pc = "Converged"
    /\ BlockDone
    /\ made' = 0
    /\ IF frame.caller = "clustering" /\ RecomputedTotal = OverflowError
       THEN /\ pc' = "Raised"
            /\ error' = "OverflowError"
            /\ UNCHANGED result
       ELSE /\ pc' = "Returned"
            /\ result' = IF frame.caller = "clustering"
                         THEN Some(ClusteringResult(Val(fop_result), env.oracle,
                                                    coordinates, weights, opts, clusters))
                         ELSE fop_result
            /\ UNCHANGED error
    /\ weights' = WeightsAfterCall
    /\ UNCHANGED <<coordinates, opts, env, new_points, frame, clusters, search,
                   api_call_count, fop_result, signals, formatted, app>>

\* what self.api.reverse_geocode answers for the point: the API rounds the
\* point and sends the request, for (nan, nan) as for any other point; the
\* answer is the service's: an address, None, or the call raises
reverse_geocode(point, reverse) == reverse

\* the text format_result builds (lines 569-682): the point with 6
\* decimals, the address lines when the reverse lookup gave an address, the
\* total time and the clustering lines when clustering_info is given
FormattedText(point, total_time, info, answer) ==
    [point      |-> Round6(point),
     address    |-> answer = "address",
     total_time |-> total_time,
     clustering |-> info]

\* what the reverse lookup of a caller of format_result can be answered:
\* an address, None, an exception, or nothing at all
ServiceAnswers == ReverseAnswers \cup {"block"}

\* OptimalPointFinder.format_result(point, total_time, clustering_info)
\* called with the fields of the dictionary a direct call returned, up to
\* the return of its reverse lookup (lines 567-574): the lookup is counted
\* when it is sent; when it raises, the exception leaves format_result;
\* when it is never answered, format_result does not return
FormatLookup ==
    /\ opts.entry # "run"
    /\ pc = "Returned"
    /\ \E service \in ServiceAnswers :
        LET answer == reverse_geocode(Val(result).optimal_point, service)
        IN  CASE answer = "raise" ->
                   /\ pc' = "Formatted"
                   /\ formatted' = Some([error |-> "reverse_geocode"])
                   /\ UNCHANGED api_call_count
              [] answer = "block" ->
                   /\ pc' = "Blocked"
                   /\ api_call_count' = api_call_count + 1
                   /\ UNCHANGED formatted
              [] OTHER ->
                   /\ pc' = "Formatting"
                   /\ formatted' = Some([address_info |-> answer])
                   /\ api_call_count' = api_call_count + 1
    /\ UNCHANGED <<inputs, position, frame, clusters, search, fop_result, result, error,
                   signals, app>>

\* format_result after its reverse lookup (lines 575-684): the text is
\* built from the answer and returned
FormatResult ==
    /\ opts.entry # "run"
    /\ pc = "Formatting"
    /\ pc' = "Formatted"
    /\ LET r == Val(result)
       IN  formatted' = Some(FormattedText(r.optimal_point, r.total_time,
                                           r.clustering_info, Val(formatted).address_info))
    /\ UNCHANGED <<inputs, position, frame, clusters, search, api_call_count, fop_result,
                   result, error, signals, app>>

\* a variant of run whose handler lets a missing result escape: no signal
\* follows progress 70
RunSignalsEscaping(p, reverse) ==
    CASE p = "Raised"                     -> <<"calculation_error">>
      [] p \in {"Returned", "ReturnedNone"} -> <<"progress_70">>
      [] p = "GeocodingNone"              -> <<>>
      [] p = "Geocoding"                  -> IF reverse = "raise"
                                             THEN <<"calculation_error">> ELSE <<>>
      [] OTHER                            -> <<"progress_100", "calculation_complete">>

\* CalculationThread.run after the search (main.py lines 65-87): the signals
\* it emits at the position p: calculation_error when the search raised;
\* progress 70 when it returned; calculation_error when there is no result
\* to read or the reverse lookup raised; progress 100 and
\* calculation_complete after the reverse lookup
RunSignals(p, reverse) ==
    CASE p = "Raised"                     -> <<"calculation_error">>
      [] p \in {"Returned", "ReturnedNone"} -> <<"progress_70">>
      [] p = "GeocodingNone"              -> <<"calculation_error">>
      [] p = "Geocoding"                  -> IF reverse = "raise"
                                             THEN <<"calculation_error">> ELSE <<>>
      [] OTHER                            -> <<"progress_100", "calculation_complete">>

\* run after the search returned (main.py lines 65-66): progress 70, then
\* time.sleep(0.3)
RunReport ==
    /\ opts.entry = "run"
    /\ pc \in {"Returned", "ReturnedNone"}
    /\ pc' = IF pc = "Returned" THEN "Geocoding" ELSE "GeocodingNone"
    /\ signals' = signals \o RunSignals(pc, env.reverse)
    /\ UNCHANGED <<inputs, position, frame, clusters, search, api_call_count, fop_result,
                   result, error, formatted, app>>

\* the reverse lookup (main.py lines 69-71): counted when it is sent; when
\* it raises, the handler of run emits the error (lines 86-87); when it is
\* never answered, run emits nothing more
ReverseGeocode ==
    /\ opts.entry = "run"
    /\ pc = "Geocoding"
    /\ LET answer == reverse_geocode(Val(result).optimal_point, env.reverse)
       IN  CASE answer = "raise" ->
                  /\ pc' = "Done"
                  /\ error' = "reverse_geocode"
                  /\ signals' = signals \o RunSignals(pc, answer)
                  /\ UNCHANGED api_call_count
             [] answer = "block" ->
                  /\ pc' = "Blocked"
                  /\ api_call_count' = api_call_count + 1
                  /\ UNCHANGED <<error, signals>>
             [] OTHER ->
                  /\ pc' = "Geocoded"
                  /\ api_call_count' = api_call_count + 1
                  /\ signals' = signals \o RunSignals(pc, answer)
                  /\ UNCHANGED error
    /\ UNCHANGED <<inputs, position, frame, clusters, search, fop_result, result, formatted, app>>

\* the end of run: the result with the address and the counter, progress 100
\* and calculation_complete (lines 72-84); or calculation_error for a search
\* that raised or returned None (lines 68, 86-87)
RunFinish ==
    /\ opts.entry = "run"
    /\ pc \in {"Raised", "GeocodingNone", "Geocoded"}
    /\ pc' = "Done"
    /\ signals' = signals \o RunSignals(pc, env.reverse)
    /\ CASE pc = "Raised" ->
              UNCHANGED <<result, error>>
         [] pc = "GeocodingNone" ->
              /\ error' = "TypeError"
              /\ UNCHANGED result
         [] OTHER ->
              /\ result' = Some([search         |-> Val(result),
                                 address        |-> env.reverse,
                                 api_call_count |-> api_call_count])
              /\ UNCHANGED error
    /\ UNCHANGED <<inputs, position, frame, clusters, search, api_call_count, fop_result,
                   formatted, app>>

Next == \/ RunStart \/ Call \/ Initialize \/ Lookup \/ LookupBlocks \/ StartSearch
        \/ EnterIteration \/ Probe \/ EndLoop \/ LogResult \/ Converge \/ Return
        \/ FormatLookup \/ FormatResult \/ RunReport \/ ReverseGeocode \/ RunFinish

Spec == Init /\ [][Next]_vars

\* the call has ended: returned or raised to its caller, who may have
\* formatted what it returned
Terminated ==
    IF opts.entry = "run" THEN pc = "Done"
    ELSE pc \in {"Returned", "ReturnedNone", "Raised", "Formatted"}

\* the call waits in a lookup that is never answered
Blocked == pc = "Blocked"

\* the calling thread advances: the call moves to another position, the
\* loop counts one more iteration or a block makes one more lookup.  Every
\* step of Next inside the call is such a step, and one is possible exactly
\* when the call has not ended and does not wait for an answer: no step
\* is possible from Blocked.
Advance ==
    /\ ~Terminated
    /\ pc \notin {"Blocked", "Formatting"}
    /\ pc' \in {"Running", "Initializing", "InitialCost", "Probing", "Iterating",
                "Reporting", "PureTotal", "Converged", "Returned", "ReturnedNone",
                "Raised", "Geocoding", "GeocodingNone", "Geocoded", "Done", "Blocked"}
    /\ iteration_count' \in {iteration_count, iteration_count + 1}
    /\ made' \in {made, 0, made + 1}

\* the interpreter keeps executing the thread that called the search: a
\* call that has a next statement to execute executes it.  Nothing is
\* assumed of the routing service: a lookup that is never answered leaves
\* the call in Blocked, where it has no next statement
FairSpec == Spec /\ WF_<<pc, iteration_count, made>>(Advance)

(***************************************************************************)
(* Concurrent calculations.  GatheringPointApp.calculate_optimal_point     *)
(* creates a MapAPI, an OptimalPointFinder and a CalculationThread for     *)
(* every request and does not wait for a running thread.  The threads run  *)
(* interleaved; here a search is the sequence of its route lookups, each   *)
(* of which increments the counter of the MapAPI it goes through, followed *)
(* by the reverse lookup of CalculationThread.run.                         *)
(***************************************************************************)
\* the largest number of calculations requested
MaxThreads == 2

\* the iterations of a search that accepts no candidate: the radius is
\* halved until the loop condition fails (optimal_point.py lines 450-493)
RECURSIVE Halvings(_, _)
Halvings(rn, rd) == IF LoopCondition(rn, rd) THEN 1 + Halvings(rn, 2 * rd) ELSE 0

\* the iterations of a search that accepted their first candidate
AcceptedFirst == {0, 1}

\* the virtual locations a worker's search runs over: the n locations, or
\* the clusters _perform_clustering makes of them when a clustering method
\* was selected (main.py lines 50-63, optimal_point.py lines 699-733)
VirtualLocations(n, clustering) ==
    IF ~clustering THEN {n}
    ELSE UNION {{Len(perform_clustering(Locs(n), Ones(n), mp[1], mp[2], l)) :
                    l \in LabelsFor(mp[1], mp[2], n)} : mp \in RunChoices}

\* the number of route lookups of a worker's search over c virtual
\* locations, started from the default step (the step given to the thread
\* is not used, main.py line 63 and optimal_point.py line 733): the initial
\* cost, every candidate of the iterations that accept none, the first
\* candidate of the iterations that accept it, the per-location pass and
\* the pure total; with clustering, the objective, the per-location pass
\* and the pure total over the n locations after the search
SearchLookups(c, n, clustering, accepted) ==
    c + Len(directions) * c * Halvings(InitialRadius(DefaultSearchStep), 1)
      + accepted * c + c + c
      + (IF clustering THEN 3 * n ELSE 0)

\* a variant of the construction that hands out one instance kept by the
\* application
AllocateShared(heap, object) ==
    IF heap = <<>> THEN [heap |-> <<object>>, ref |-> 1] ELSE [heap |-> heap, ref |-> 1]

\* create_map_api(...) and OptimalPointFinder(api) (main.py lines 716-717):
\* a constructor call makes a new instance
Allocate(heap, object) == [heap |-> Append(heap, object), ref |-> Len(heap) + 1]

\* MapAPI.__init__ (map_api.py lines 12-16)
NewMapAPI == [api_call_count |-> 0]
\* OptimalPointFinder.__init__ (optimal_point.py lines 10-15)
NewFinder(api) == [map_api |-> api, search_radius |-> InitialSearchRadius]

\* the locations the application can hold at a time
MaxLocations == 1
\* the ids of the locations added in a behaviour: one more than can be held
\* at a time, so that a deleted location can be followed by a new one
LocationIds == 1..(MaxLocations + 1)
\* the weights entered for a location: 1.0 and 'nan', which passes the guard
\* `if weight <= 0` (main.py lines 390-391, 557-558)
EnteredWeights == {WeightScale, NaN}

\* a variant of the worker that reads the application's locations each time
\* it needs its lists
ThreadListsLive(thread, locs) ==
    [coordinates |-> [k \in 1..Len(locs) |-> locs[k].coordinates],
     weights     |-> [k \in 1..Len(locs) |-> locs[k].weight]]

\* coordinates and weights as calculate_optimal_point extracts them (main.py
\* lines 727-728): two new lists, in the insertion order of the dict
Snapshot(locs) ==
    [coordinates |-> [k \in 1..Len(locs) |-> locs[k].coordinates],
     weights     |-> [k \in 1..Len(locs) |-> locs[k].weight]]

\* the lists the worker hands to the search: self.coordinates and
\* self.weights of the thread (main.py lines 53-63)
ThreadLists(thread, locs) ==
    [coordinates |-> thread.coordinates, weights |-> thread.weights]

\* the per-location entries of a result (optimal_point.py lines 504-545):
\* index, coordinate and weight of each location of the lists
ReportEntries(lists) ==
    [k \in 1..Len(lists.coordinates) |->
        [point_index |-> k - 1,
         coordinates |-> lists.coordinates[k],
         weight      |-> lists.weights[k]]]

\* CalculationThread.__init__ (main.py lines 30-39)
NewThread(api, finder, lists, virtual, lookups) ==
    [api |-> api, finder |-> finder, coordinates |-> lists.coordinates,
     weights |-> lists.weights, virtual |-> virtual, lookups |-> lookups, pc |-> "started",
     made |-> 0, loaded |-> None, searched |-> None, result |-> None]

\* the single-call variables are not used by the concurrent calculations
call == <<inputs, pc, position, frame, clusters, search, api_call_count, fop_result,
          result, error, formatted, signals, request>>

\* no request made yet
AppInit ==
    InitFor(Input(<<>>, None,
                  Options("run", <<"none">>, 0, DefaultHdbscanParam, DefaultMaxClusterSize,
                          DefaultSearchStep, "total_cost"),
                  Environment("ok", NoLabels, "address")))

\* GatheringPointApp.calculate_optimal_point (main.py lines 702-788)
CalculateOptimalPoint ==
    /\ Len(threads) < MaxThreads
    /\ locations # <<>>
    /\ \E clustering \in BOOLEAN, accepted \in AcceptedFirst :
       \E c \in VirtualLocations(Len(locations), clustering) :
        LET a == Allocate(apis, NewMapAPI)
            f == Allocate(finders, NewFinder(a.ref))
        IN  /\ apis' = a.heap
            /\ finders' = f.heap
            /\ threads' = Append(threads,
                                 NewThread(a.ref, f.ref, Snapshot(locations), c,
                                           SearchLookups(c, Len(locations), clustering,
                                                         accepted)))
            /\ calculation_thread' = Len(threads) + 1
    /\ UNCHANGED <<call, locations>>

\* GatheringPointApp.add_location (main.py lines 479-481): a new id, the
\* geocoded coordinates and the weight entered
AddLocation ==
    /\ Len(locations) < MaxLocations
    /\ \E id \in LocationIds, w \in EnteredWeights :
        /\ \A k \in 1..Len(locations) : locations[k].id # id
        /\ locations' = Append(locations, [id |-> id, coordinates |-> Loc(id), weight |-> w])
    /\ UNCHANGED <<call, threads, finders, apis, calculation_thread>>

\* GatheringPointApp.update_location_weight (main.py lines 552-563): the
\* entry of the id is replaced by a new tuple with the new weight
UpdateLocationWeight ==
    /\ \E k \in 1..Len(locations), w \in EnteredWeights :
        /\ w # locations[k].weight
        /\ locations' = [locations EXCEPT ![k] = [id          |-> locations[k].id,
                                                   coordinates |-> locations[k].coordinates,
                                                   weight      |-> w]]
    /\ UNCHANGED <<call, threads, finders, apis, calculation_thread>>

\* GatheringPointApp._complete_deletion (main.py lines 602-606)
CompleteDeletion ==
    /\ \E k \in 1..Len(locations) :
        locations' = [j \in 1..(Len(locations) - 1) |->
                         IF j < k THEN locations[j] ELSE locations[j + 1]]
    /\ UNCHANGED <<call, threads, finders, apis, calculation_thread>>

\* the search sets the finder's radius after the lookups of its initial
\* cost, one per virtual location (optimal_point.py lines 394-448; through
\* CalculationThread.run search_step keeps its default)
WorkerSetRadius(t) ==
    /\ threads[t].pc = "started"
    /\ IsNone(threads[t].loaded)
    /\ threads[t].made = threads[t].virtual
    /\ finders' = [finders EXCEPT ![threads[t].finder].search_radius =
                                     InitialRadius(DefaultSearchStep)]
    /\ threads' = [threads EXCEPT ![t].pc = "searching",
                                   ![t].searched = Some(ThreadLists(threads[t], locations))]
    /\ UNCHANGED <<call, apis, calculation_thread, locations>>

\* self.api_call_count += 1 (map_api.py line 52) reads the counter ...
WorkerLoad(t) ==
    /\ IsNone(threads[t].loaded)
    /\ \/ threads[t].pc = "started" /\ threads[t].made < threads[t].virtual
       \/ threads[t].pc = "searching" /\ threads[t].made < threads[t].lookups + 1
    /\ threads' = [threads EXCEPT ![t].loaded = Some(apis[threads[t].api].api_call_count),
                                   ![t].searched = Some(ThreadLists(threads[t], locations))]
    /\ UNCHANGED <<call, finders, apis, calculation_thread, locations>>

\* ... and stores the incremented value; the lookup is made
WorkerStore(t) ==
    /\ threads[t].pc \in {"started", "searching"}
    /\ ~IsNone(threads[t].loaded)
    /\ apis' = [apis EXCEPT ![threads[t].api].api_call_count = Val(threads[t].loaded) + 1]
    /\ threads' = [threads EXCEPT ![t].loaded = None, ![t].made = @ + 1]
    /\ UNCHANGED <<call, finders, calculation_thread, locations>>

\* CalculationThread.run after the reverse lookup (main.py lines 76-83): the
\* counter goes into the result and the result is emitted
WorkerFinish(t) ==
    /\ threads[t].pc = "searching"
    /\ IsNone(threads[t].loaded)
    /\ threads[t].made = threads[t].lookups + 1
    /\ threads' = [threads EXCEPT
                     ![t].pc = "done",
                     ![t].result = Some([api_call_count |->
                                            apis[threads[t].api].api_call_count,
                                         individual_times |->
                                            ReportEntries(ThreadLists(threads[t],
                                                                      locations))])]
    /\ UNCHANGED <<call, finders, apis, calculation_thread, locations>>

SetRadius == \E t \in 1..Len(threads) : WorkerSetRadius(t)
Load == \E t \in 1..Len(threads) : WorkerLoad(t)
Store == \E t \in 1..Len(threads) : WorkerStore(t)
Finish == \E t \in 1..Len(threads) : WorkerFinish(t)

AppNext == \/ CalculateOptimalPoint \/ SetRadius \/ Load \/ Store \/ Finish
           \/ AddLocation \/ UpdateLocationWeight \/ CompleteDeletion

AppSpec == AppInit /\ [][AppNext]_vars

(***************************************************************************)
(* MapAPI._handle_api_request (map_api.py lines 33-77).  A message is the   *)
(* sequence of the characters of str(e).                                    *)
(***************************************************************************)
\* self.max_retries = 3 (map_api.py line 14)
max_retries == 3

\* the requests made in a behaviour
MaxRequests == 2

\* `keyword in text`
Contains(text, keyword) ==
    \E i \in 0..(Len(text) - Len(keyword)) :
        \A j \in 1..Len(keyword) : text[i + j] = keyword[j]

\* ['qps', 'exceeded', 'limit', 'cuqps_has_exceeded_the_limit'] (line 62)
limit_errs ==
    <<<<"q", "p", "s">>,
      <<"e", "x", "c", "e", "e", "d", "e", "d">>,
      <<"l", "i", "m", "i", "t">>,
      <<"c", "u", "q", "p", "s", "_", "h", "a", "s", "_", "e", "x", "c", "e", "e", "d", "e", "d", "_", "t", "h", "e", "_", "l", "i", "m", "i", "t">>>>

\* any(limit_err in error_str for limit_err in [...]) on str(e).lower()
\* (lines 59-62)
IsLimitError(message) ==
    \E k \in 1..Len(limit_errs) : Contains(LowerText(message), limit_errs[k])

\* messages of the errors a request function raises: the rate-limit
\* answers 'CUQPS_HAS_EXCEEDED_THE_LIMIT', 'QPS', 'Limit', 'quota exceeded',
\* and 'INVALID_USER_KEY', 'timeout'
CuqpsMessage    == <<"C", "U", "Q", "P", "S", "_", "H", "A", "S", "_", "E", "X", "C", "E", "E", "D", "E", "D", "_", "T", "H", "E", "_", "L", "I", "M", "I", "T">>
QpsMessage      == <<"Q", "P", "S">>
LimitMessage    == <<"L", "i", "m", "i", "t">>
ExceededMessage == <<"q", "u", "o", "t", "a", " ", "e", "x", "c", "e", "e", "d", "e", "d">>
KeyMessage      == <<"I", "N", "V", "A", "L", "I", "D", "_", "U", "S", "E", "R", "_", "K", "E", "Y">>
TimeoutMessage  == <<"t", "i", "m", "e", "o", "u", "t">>
ErrorMessages ==
    {CuqpsMessage, QpsMessage, LimitMessage, ExceededMessage, KeyMessage, TimeoutMessage}

\* what one invocation of request_func does: it returns a value (a time or
\* None), raises an error with a message, or does not come back (it waits
\* in requests.get, called without a timeout at lines 285 and 830)
AttemptOutcomes ==
    {[kind |-> "return", value |-> v] : v \in {<<"int", 214>>, <<"none">>}}
    \cup {[kind |-> "raise", message |-> m] : m \in ErrorMessages}
    \cup {[kind |-> "block"]}

\* while retries <= self.max_retries (line 54)
WhileCondition(retries) == retries <= max_retries

\* the variables _handle_api_request does not touch
unhandled == <<inputs, pc, position, frame, clusters, search, fop_result, result, error,
               formatted, signals, threads, finders, apis, calculation_thread, locations>>

\* lines 48-52: retries = 0, last_error = None, self.api_call_count += 1
HandleApiRequest ==
    /\ request.pc \in {"idle", "returned", "raised"}
    /\ api_call_count < MaxRequests
    /\ api_call_count' = api_call_count + 1
    /\ request' = [pc |-> "loop", retries |-> 0, last_error |-> None, calls |-> <<>>,
                   outcome |-> None]
    /\ UNCHANGED unhandled

\* one round of the loop (lines 54-72): the request function is invoked;
\* its value is returned, or its error is kept in last_error and, if it is a
\* rate-limit error, retries is incremented and the loop condition is
\* evaluated again, otherwise the loop is left; an invocation that does not
\* come back leaves the request where it is
Attempt ==
    /\ request.pc = "loop"
    /\ WhileCondition(request.retries)
    /\ \E a \in AttemptOutcomes :
        request' =
            IF a.kind = "return"
            THEN [request EXCEPT !.pc = "returned",
                                 !.calls = Append(@, a),
                                 !.outcome = Some(a)]
            ELSE IF a.kind = "block"
            THEN [request EXCEPT !.pc = "blocked",
                                 !.calls = Append(@, a)]
            ELSE IF IsLimitError(a.message)
            THEN [request EXCEPT !.retries = @ + 1,
                                 !.last_error = Some(a.message),
                                 !.calls = Append(@, a)]
            ELSE [request EXCEPT !.pc = "after",
                                 !.last_error = Some(a.message),
                                 !.calls = Append(@, a)]
    /\ UNCHANGED <<unhandled, api_call_count>>

\* the loop condition fails (line 54)
LeaveLoop ==
    /\ request.pc = "loop"
    /\ ~WhileCondition(request.retries)
    /\ request' = [request EXCEPT !.pc = "after"]
    /\ UNCHANGED <<unhandled, api_call_count>>

\* lines 75-77: if last_error: raise last_error; return None
EndRequest ==
    /\ request.pc = "after"
    /\ request' =
           IF ~IsNone(request.last_error)
           THEN [request EXCEPT !.pc = "raised",
                                !.outcome = Some([kind    |-> "raise",
                                                  message |-> Val(request.last_error)])]
           ELSE [request EXCEPT !.pc = "returned",
                                !.outcome = Some([kind |-> "return", value |-> <<"none">>])]
    /\ UNCHANGED <<unhandled, api_call_count>>

RequestNext == HandleApiRequest \/ Attempt \/ LeaveLoop \/ EndRequest

RequestSpec == AppInit /\ [][RequestNext]_vars

\* the calling thread executes: a request that has a next statement to
\* execute executes it.  Nothing is assumed of the request function: an
\* invocation that does not come back leaves the request in "blocked",
\* where no step is possible
RequestFairSpec == RequestSpec /\ WF_request(Attempt \/ LeaveLoop \/ EndRequest)

(***************************************************************************)
(* Properties                                                              *)
(***************************************************************************)
RECURSIVE Log2(_)
Log2(n) == IF n <= 1 THEN 0 ELSE 1 + Log2(n \div 2)

\* the weights a call without weights uses: 1.0 for every location
WeightsOrOnes == IF IsNone(weights) THEN Some(Ones(Len(coordinates))) ELSE weights

\* the iterations that have ended: the counter is incremented when an
\* iteration starts (line 451)
IterationsEnded == iteration_count - (IF pc = "Iterating" THEN 1 ELSE 0)

\* every accepted candidate lowered a non-negative integer cost by at least
\* one, every other iteration halved a radius that was at least min_radius
IterationsBounded ==
    /\ current_time >= 0
    /\ current_time <= initial_time
    /\ IterationsEnded <= (initial_time - current_time) + Log2(radiusDen)
    /\ radiusDen > 1 => 2 * radiusNum >= min_radius * radiusDen

\* the oracle answers every lookup, with a time or with None
TimesOrNone == env.oracle \in {"ok", "none_all", "none_south", "none_north"}

\* every weight of the call is a finite float
FiniteWeights ==
    IsNone(frame.weights) \/ \A i \in 1..Len(Val(frame.weights)) :
                                ~NonFinite(Val(frame.weights)[i])

\* C1: for a positive step, finite weights and an oracle that answers every
\* lookup with a time or with None, the coordinate-descent loop is left
\* only by convergence, after a bounded number of iterations: the number of
\* iterations never exceeds the cost decrease plus the number of halvings,
\* the radius is halved only while it is at least min_radius, and the step
\* that leaves the loop goes to the report of the converged search.
C1_LoopTerminates ==
    /\ []((TimesOrNone /\ pc # "Raised") => IterationsBounded)
    /\ [][(/\ TimesOrNone /\ FiniteWeights /\ frame.search_step > 0
            /\ pc \in {"Probing", "Iterating"})
           => pc' \in {"Probing", "Iterating", "Reporting"}]_vars

\* clustering ran in the call: find_optimal_point_with_clustering, or
\* find_optimal_point above the clustering threshold with a method or with
\* the default it takes for None (lines 355-359)
ClusteringRan ==
    \/ frame.caller = "clustering"
    \/ /\ Len(frame.coordinates) > cluster_threshold
       /\ (Truthy(frame.clustering_method) \/ frame.clustering_method = <<"none">>)

\* C2: whenever clustering ran, the returned total_time is the objective and
\* the returned pure_total_time the unweighted sum at the returned point
\* over the caller's own locations and weights.
C2_ReportedAgainstOriginal ==
    (pc = "Returned" /\ ClusteringRan) =>
        LET r == Val(result)
        IN  /\ r.total_time = Objective(opts.algorithm_type, env.oracle, r.optimal_point,
                                        coordinates, WeightsOrOnes)
            /\ r.pure_total_time = calculate_pure_total_time(env.oracle, r.optimal_point,
                                                             coordinates)

\* a clustered search returned, the clusters were fewer than the locations
\* and the objective over the cluster centers differs from the reported one
C2_Witness ==
    /\ pc = "Returned"
    /\ frame.caller = "clustering"
    /\ Len(clusters) < Len(coordinates)
    /\ Val(result).total_time > 0
    /\ Val(result).total_time #
           Objective(opts.algorithm_type, env.oracle, Val(result).optimal_point,
                     frame.coordinates, frame.weights)

\* C3: a returned result has one individual_times entry per location of the
\* caller, in the caller's order, and the entry of a lookup that returned
\* nothing or raised has time_seconds None.
C3_IndividualTimes ==
    pc = "Returned" =>
        LET it == Val(result).individual_times
        IN  /\ Len(it) = Len(coordinates)
            /\ \A i \in 1..Len(it) :
                    LET a == calculate_route(env.oracle, Val(result).optimal_point,
                                             coordinates[i])
                    IN  /\ it[i].point_index = i - 1
                        /\ it[i].coordinates = coordinates[i]
                        /\ a.kind = "time" => it[i].time_seconds = Some(a.time)
                        /\ a.kind # "time" => it[i].time_seconds = None

\* a clustered search returned several entries, one with a time and one of
\* a lookup that failed
C3_Witness ==
    /\ pc = "Returned"
    /\ frame.caller = "clustering"
    /\ Len(clusters) < Len(coordinates)
    /\ \E i, j \in 1..Len(Val(result).individual_times) :
            /\ Val(result).individual_times[i].time_seconds = None
            /\ Val(result).individual_times[j].time_seconds # None

\* the search was started through the application (CalculationThread.run
\* without clustering) or through find_optimal_point_with_clustering
ThroughEntryPath == frame.caller \in {"run", "clustering"}

\* the search is in or past its loop
Searching ==
    pc \in {"Probing", "Iterating", "Reporting", "PureTotal", "Converged", "Returned",
            "Formatting", "Formatted"}

\* C4: with algorithm_type = 'min_max_time' the initial cost and the cost
\* every candidate is compared with are maximum travel times, on both entry
\* paths.
C4_MinMaxObjectiveUsed ==
    (Searching /\ ThroughEntryPath /\ opts.algorithm_type = "min_max_time") =>
        /\ initial_time = calculate_max_time(env.oracle, Val(initial_point),
                                             frame.coordinates)
        /\ current_time = calculate_max_time(env.oracle, Val(current_point),
                                             frame.coordinates)

\* C5: the initial radius of the search is the caller's search step in
\* meters times 0.000009, on both entry paths.
C5_InitialRadiusFromStep ==
    (Searching /\ ThroughEntryPath) =>
        /\ search_radius = opts.search_step * MicroDegPerMeter
        /\ iteration_count = 0 =>
                radiusNum = opts.search_step * MicroDegPerMeter * radiusDen

\* the virtual locations are the n locations with their own weights
IsIdentity(vcoords, vweights, coords, w) ==
    /\ Len(vcoords) = Len(coords)
    /\ Len(vweights) = Len(coords)
    /\ \A i \in 1..Len(coords) : vcoords[i] = coords[i] /\ vweights[i] = w[i]

\* the clustering of the call is a no-op: fewer locations than the density
\* min-cluster-size, or at most the capacity max-cluster-size
NoOpInClustering ==
    \/ /\ Lower(opts.method[2]) = S_hdbscan
       /\ Len(coordinates) < (IF opts.param > 0 THEN opts.param ELSE DefaultHdbscanParam)
    \/ /\ Lower(opts.method[2]) = S_kmeans
       /\ Len(coordinates) <= (IF opts.param > 0 THEN opts.param ELSE DefaultKmeansParam)
NoOpInSearch ==
    \/ /\ Lower(frame.clustering_method[2]) = S_hdbscan
       /\ frame.min_cluster_size[1] = "int"
       /\ Len(frame.coordinates) < frame.min_cluster_size[2]
    \/ /\ Lower(frame.clustering_method[2]) = S_kmeans
       /\ Len(frame.coordinates) <= frame.max_cluster_size

\* C6: when the clustering is a no-op, the search gets exactly n virtual
\* locations, each with the coordinate and the weight of one location: from
\* _perform_clustering in find_optimal_point_with_clustering, and from
\* apply_hdbscan and apply_capacity_kmeans in find_optimal_point.
C6_NoOpClusteringIsIdentity ==
    /\ (pc = "Initializing" /\ frame.caller = "clustering" /\ NoOpInClustering) =>
           IsIdentity(frame.coordinates, Val(frame.weights), coordinates, Val(WeightsOrOnes))
    /\ (pc = "Initializing" /\ frame.caller = "direct" /\ frame.clustering_method[1] = "str"
            /\ Len(frame.coordinates) > cluster_threshold /\ NoOpInSearch
            /\ ~IsNone(frame.weights) /\ Len(Val(frame.weights)) = Len(frame.coordinates)) =>
           \A cl \in FopClustering(frame, env.labels) :
               cl.status = "ok" =>
                   IsIdentity([k \in 1..Len(cl.centers) |-> cl.centers[k].coord],
                              [k \in 1..Len(cl.centers) |-> cl.centers[k].weight],
                              frame.coordinates, Val(frame.weights))

\* the caller passed a weight that is 0 or negative
NonPositiveWeight ==
    /\ ~IsNone(weights)
    /\ \E i \in 1..Len(Val(weights)) : ~NonFinite(Val(weights)[i]) /\ Val(weights)[i] <= 0

\* C7: a direct call of a search with a weight that is 0 or negative fails:
\* the search is not entered with that weight.
C7_NonPositiveWeightRejected ==
    (opts.entry # "run" /\ NonPositiveWeight) => ~Searching

\* C8: a direct call of a search with no locations ends with an error, and
\* no routing lookup is made.
C8_EmptyListFails ==
    (opts.entry # "run" /\ coordinates = <<>> /\ Terminated) =>
        pc = "Raised" /\ error # "" /\ api_call_count = 0

\* C9: find_optimal_point called with search_step <= 0 fails and makes no
\* routing lookup.
C9_NonPositiveStepFails ==
    (opts.entry = "find_optimal_point" /\ opts.search_step <= 0) =>
        ~Searching /\ api_call_count = 0

\* C10: a search whose lookups from the initial point are all unknown fails
\* before its loop: a search in or past its loop priced at least one
\* location from its initial point.
C10_NoRouteFailsInInitializing ==
    Searching =>
        \E i \in 1..Len(frame.coordinates) :
            Lookups(env.oracle, Val(initial_point), frame.coordinates)[i].kind = "time"

\* a direct call with at least one location and one positive weight per
\* location
WellFormedDirectCall ==
    /\ opts.entry # "run"
    /\ coordinates # <<>>
    /\ ~IsNone(weights)
    /\ Len(Val(weights)) = Len(coordinates)
    /\ \A i \in 1..Len(coordinates) : Val(weights)[i] > 0

\* the oracle answers every lookup and fails some: it returns None or raises
FailingOracle == env.oracle \in OracleModes \ {"ok"}

\* no weight of the call is 1e308 and the k-means capacity is not 0: no
\* arithmetic of the call raises
OrdinaryArithmetic ==
    /\ \A i \in 1..Len(Val(weights)) : Val(weights)[i] # Huge
    /\ opts.max_cluster_size # 0

\* C11: in a well-formed direct call whose oracle fails lookups (returns
\* None or raises, for some or for all locations) no failed lookup of the
\* initial cost, of a probe, of the per-location pass or of the pure total
\* aborts the search: the call never returns nothing, the only errors it
\* raises are those of its arithmetic (OverflowError for a weight of 1e308,
\* ZeroDivisionError for a k-means capacity of 0), and without these the
\* call ends by returning a result.
C11_FailedLookupNeverAborts ==
    /\ []((WellFormedDirectCall /\ FailingOracle) =>
              /\ pc # "ReturnedNone"
              /\ pc = "Raised" => error \in {"OverflowError", "ZeroDivisionError"}
              /\ OrdinaryArithmetic => pc # "Raised")
    /\ (pc = "Start" /\ WellFormedDirectCall /\ FailingOracle /\ OrdinaryArithmetic)
          ~> (pc = "Returned")

\* a search returned although a lookup of its per-location pass raised, one
\* returned a time, and probes were made
C11_Witness ==
    /\ pc = "Returned"
    /\ WellFormedDirectCall
    /\ env.oracle = "raise_south"
    /\ iteration_count > 4
    /\ \E i, j \in 1..Len(coordinates) :
            /\ calculate_route(env.oracle, Val(result).optimal_point, coordinates[i]).kind = "raise"
            /\ calculate_route(env.oracle, Val(result).optimal_point, coordinates[j]).kind = "time"

\* C12: no step of a search changes the coordinate list or the weight list
\* the caller passed in, whatever the lengths of the two lists, so both are
\* as they were when the call returns or fails
C12_InputsNeverMutated ==
    [][coordinates' = coordinates /\ weights' = weights]_vars

\* a search that probed and returned although the weight list it was given
\* is longer than the coordinate list
C12_Witness ==
    /\ pc = "Returned"
    /\ opts.entry = "find_optimal_point"
    /\ ~IsNone(weights)
    /\ Len(Val(weights)) > Len(coordinates)
    /\ iteration_count > 4

\* the fields every result has to carry: the optimal point, the two totals,
\* the per-location times, the iteration count and the log entries
MandatoryFields ==
    {"optimal_point", "total_time", "pure_total_time", "individual_times",
     "iteration_count", "calculation_logs"}

\* C13: every result a search returns contains all the mandatory fields
C13_ResultHasMandatoryFields ==
    (opts.entry # "run" /\ pc = "Returned") => MandatoryFields \subseteq DOMAIN Val(result)

\* the caller asked for clustering, or made no choice for a list above the
\* clustering threshold
ClusteringExpected ==
    \/ Truthy(opts.method)
    \/ (opts.method = <<"none">> /\ Len(coordinates) > cluster_threshold)

\* the caller made no clustering choice for a list above the threshold and
\* passed one weight per location
AutomaticClusteringCase ==
    /\ opts.method = <<"none">>
    /\ Len(coordinates) > cluster_threshold
    /\ ~IsNone(weights)
    /\ Len(Val(weights)) = Len(coordinates)

\* C14: a returned search ran clustering exactly when a method was requested
\* or no choice was made for more than 20 locations; in the latter case the
\* search does not fail on the missing choice and clusters with HDBSCAN
C14_ClusteringExactlyWhenRequested ==
    /\ (pc = "Returned" /\ coordinates # <<>>) => (ClusteringRan <=> ClusteringExpected)
    /\ AutomaticClusteringCase => error # "AttributeError"
    /\ (AutomaticClusteringCase /\ pc = "Returned") =>
           (~IsNone(clustering_info) /\ Val(clustering_info).method = "HDBSCAN")

\* the thread t, its finder and its MapAPI are as its own steps left them
OwnState(t) ==
    LET th == threads[t]
    IN  /\ finders[th.finder].map_api = th.api
        /\ apis[th.api].api_call_count = th.made
        /\ finders[th.finder].search_radius =
               (IF th.pc = "started" THEN InitialSearchRadius
                ELSE InitialRadius(DefaultSearchStep))
        /\ th.pc = "done" => Val(th.result).api_call_count = th.lookups + 1

\* C15: calculations that run at the same time use different finders and
\* different MapAPI instances, and the search radius, the call counter and
\* the result of each are what its own steps made them
C15_WorkersShareNoState ==
    \A t \in 1..Len(threads) :
        /\ OwnState(t)
        /\ \A u \in 1..Len(threads) :
               u # t => /\ threads[u].finder # threads[t].finder
                        /\ threads[u].api # threads[t].api

\* the second calculation was requested and has made lookups while the
\* first, with a different number of lookups, is in the middle of its own
C15_Witness ==
    /\ Len(threads) = 2
    /\ threads[1].pc = "searching" /\ threads[1].made > 0 /\ ~IsNone(threads[1].loaded)
    /\ threads[2].pc = "searching" /\ threads[2].made > threads[1].made
    /\ threads[1].lookups # threads[2].lookups

\* the step that starts an iteration of the loop
IterationStart == pc = "Probing" /\ pc' = "Iterating"

\* the step that ends an iteration of the loop, after the lookups of its
\* candidates new_points
LoopStep == pc = "Iterating" /\ pc' = "Probing"

\* the candidates of the iteration in progress that cost strictly less than
\* the current point
CheaperCandidates == {k \in 1..Len(directions) : CandidateCost(new_points[k]) < current_time}

\* C16: in an iteration where some candidate costs strictly less than the
\* current point, the search moves to the first such candidate in direction
\* order, makes no lookup for the directions after it and keeps the radius;
\* without one the point and the cost stay, so a candidate of equal cost is
\* never taken
C16_FirstImprovementAccepted ==
    [][LoopStep =>
         /\ new_points \in Candidates(Val(current_point))
         /\ IF CheaperCandidates = {}
            THEN /\ current_point' = current_point /\ current_time' = current_time
                 /\ made = Len(directions) * Len(frame.coordinates)
            ELSE \E k \in CheaperCandidates :
                    /\ \A j \in 1..(k - 1) : j \notin CheaperCandidates
                    /\ current_point' = Some(new_points[k])
                    /\ current_time' = CandidateCost(new_points[k])
                    /\ radiusNum' = radiusNum /\ radiusDen' = radiusDen
                    /\ made = k * Len(frame.coordinates)
      ]_vars

\* the first iteration of a direct call moved to its first candidate after
\* one cost evaluation although a later direction was cheaper still
C16_Witness ==
    /\ pc = "Probing" /\ opts.entry = "find_optimal_point"
    /\ iteration_count = 1
    /\ current_time < initial_time
    /\ radiusDen = 1
    /\ api_call_count = 2 * Len(frame.coordinates)
    /\ \E cand \in Candidates(Val(initial_point)) : \E k \in 2..Len(directions) :
           /\ current_point = Some(cand[1])
           /\ CandidateCost(cand[k]) < current_time

\* the radius after the step is half the radius before it
RadiusHalved == 2 * radiusNum' * radiusDen = radiusNum * radiusDen'
\* the radius after the step is the radius before it
RadiusKept == radiusNum' * radiusDen = radiusNum * radiusDen'

\* C17: a loop step that moves to no candidate halves the radius and leaves
\* the point and the cost as they were, and after the search has set its
\* initial radius no other step changes the radius
C17_HalvedWithoutImprovement ==
    [][/\ (LoopStep /\ current_time' >= current_time) =>
             /\ RadiusHalved
             /\ current_point' = current_point
             /\ current_time' = current_time
       /\ (pc # "InitialCost" /\ ~RadiusKept) =>
             (LoopStep /\ RadiusHalved /\ current_point' = current_point)
      ]_vars

\* a search whose first iteration found no cheaper candidate in any of the
\* four directions: the radius is half the initial one, the point and the
\* cost are the initial ones
C17_Witness ==
    /\ pc = "Probing"
    /\ iteration_count = 1
    /\ radiusNum = InitialRadius(frame.search_step) /\ radiusDen = 2
    /\ current_point = initial_point
    /\ current_time = initial_time /\ initial_time > 0
    /\ api_call_count = (1 + Len(directions)) * Len(frame.coordinates)

\* East, North, West, South as offsets (latitude, longitude) of a point
\* (latitude, longitude)
EastNorthWestSouth == << <<0, 1>>, <<1, 0>>, <<0, -1>>, <<-1, 0>> >>

\* C18: the candidate a loop step moves to after evaluating k candidates is
\* the k-th of East (longitude + radius), North (latitude + radius), West,
\* South
C18_EastNorthWestSouthOrder ==
    [][(LoopStep /\ current_point' # current_point) =>
         \E k \in 1..Len(directions) :
            /\ made = k * Len(frame.coordinates)
            /\ Val(current_point') \in NewPoint(Val(current_point), EastNorthWestSouth[k],
                                                radiusNum, radiusDen)
      ]_vars

\* the radius of the state is below self.min_radius
BelowFloor == radiusNum < min_radius * radiusDen

\* C19: an iteration starts, makes its lookups and ends only at a radius of
\* at least 0.0001; from a radius below it the search leaves the loop
\* without another iteration and without moving; and a search whose step is
\* 1 to 11 meters, such as the automatic step's minimum of 10, starts with a
\* radius below it, makes no iteration and returns its initial centroid
C19_ProbesOnlyAboveFloor ==
    [][/\ (IterationStart \/ pc = "Iterating") => ~BelowFloor
       /\ (pc = "Probing" /\ BelowFloor) =>
             /\ pc' = "Reporting"
             /\ iteration_count' = iteration_count
             /\ current_point' = current_point
             /\ current_time' = current_time
       /\ (pc' = "Converged" /\ search_radius' < min_radius) =>
             /\ iteration_count' = 0
             /\ Val(fop_result').optimal_point = Val(initial_point')
       /\ (pc = "InitialCost" /\ pc' = "Probing"
            /\ opts.search_step * MicroDegPerMeter < min_radius) =>
             search_radius' < min_radius /\ BelowFloor'
       /\ (opts.search_step > 0 /\ opts.search_step * MicroDegPerMeter < min_radius) =>
             iteration_count' = 0
      ]_vars

\* the weight the cost uses for location i: the caller's, 1.0 where the
\* caller gave none (scaled by WeightScale)
WeightOf(i) ==
    IF ~IsNone(frame.weights) /\ i <= Len(Val(frame.weights))
    THEN Val(frame.weights)[i] ELSE WeightScale

\* the locations whose lookup from the point p returns a time
Succeeded(p) ==
    {i \in 1..Len(frame.coordinates) :
        calculate_route(env.oracle, Round6(p), Round6(frame.coordinates[i])).kind = "time"}

\* the float sum of weight * time over the locations of S, times WeightScale
RECURSIVE WeightedSumOver(_, _)
WeightedSumOver(p, S) ==
    IF S = {} THEN 0
    ELSE LET i == CHOOSE x \in S : TRUE
         IN  PlusWeight(TimesWeight(calculate_route(env.oracle, Round6(p),
                                                    Round6(frame.coordinates[i])).time,
                                    WeightOf(i)),
                        WeightedSumOver(p, S \ {i}))

\* the search is in its loop under the weighted-sum objective, so that
\* current_time is what calculate_total_time returned for current_point
CostIsTotalTime ==
    /\ pc = "Probing" /\ frame.algorithm_type = "total_cost"
    /\ current_time = calculate_total_time(env.oracle, Val(current_point),
                                           frame.coordinates, frame.weights)

\* C20 as stated: calculate_total_time returns the sum of weight * time
\* over the locations whose lookup succeeded
C20_TotalIsWeightedSum ==
    (pc = "Probing" /\ frame.algorithm_type = "total_cost") =>
        /\ CostIsTotalTime
        /\ WeightScale * current_time =
               WeightedSumOver(Val(current_point), Succeeded(Val(current_point)))

\* what the amended C20 says of the point p: OverflowError when the sum
\* over the succeeded lookups is inf, else its integer part when it is
\* positive, else 0
ExpectedTotal(p) ==
    LET sum2 == WeightedSumOver(p, Succeeded(p))
    IN  IF sum2 = Infinity THEN OverflowError
        ELSE IF sum2 = NaN THEN 0
        ELSE IF sum2 = Huge THEN Huge
        ELSE IF sum2 > 0 THEN sum2 \div WeightScale ELSE 0

\* the candidate the iteration in progress evaluated last
LastEvaluated == made \div Len(frame.coordinates)

\* C20 amended: calculate_total_time returns the integer part of the sum of
\* weight * time over the locations whose lookup succeeded, and 0 when that
\* sum is not positive; when that sum is infinite the call raises
\* OverflowError instead of returning; a failed lookup contributes nothing.
\* So the cost of the current point in the loop is that value; the
\* evaluation of the initial point and of every candidate either gives that
\* value to the search or ends the search with OverflowError
C20_TotalIsTruncatedWeightedSum ==
    /\ []((pc = "Probing" /\ frame.algorithm_type = "total_cost") =>
              /\ CostIsTotalTime
              /\ current_time = ExpectedTotal(Val(current_point)))
    /\ [][/\ (/\ pc = "InitialCost" /\ pc' \in {"Probing", "Raised"}
               /\ frame.algorithm_type = "total_cost") =>
                 IF ExpectedTotal(Val(current_point)) = OverflowError
                 THEN pc' = "Raised" /\ error' = "OverflowError"
                 ELSE /\ pc' = "Probing"
                      /\ initial_time' = ExpectedTotal(Val(current_point))
                      /\ current_time' = ExpectedTotal(Val(current_point))
           /\ (/\ pc = "Iterating" /\ pc' \in {"Probing", "Raised"}
               /\ frame.algorithm_type = "total_cost") =>
                 /\ \A j \in 1..(LastEvaluated - 1) :
                        /\ ExpectedTotal(new_points[j]) # OverflowError
                        /\ ExpectedTotal(new_points[j]) >= current_time
                 /\ IF ExpectedTotal(new_points[LastEvaluated]) = OverflowError
                    THEN pc' = "Raised" /\ error' = "OverflowError"
                    ELSE /\ pc' = "Probing"
                         /\ IF ExpectedTotal(new_points[LastEvaluated]) < current_time
                            THEN /\ current_time' = ExpectedTotal(new_points[LastEvaluated])
                                 /\ current_point' = Some(new_points[LastEvaluated])
                            ELSE /\ current_time' = current_time
                                 /\ LastEvaluated = Len(directions)
          ]_vars

\* a cost over locations of which one lookup failed and one succeeded, with
\* a positive sum that is not an integer
C20_Witness ==
    /\ CostIsTotalTime
    /\ Succeeded(Val(current_point)) # {}
    /\ Succeeded(Val(current_point)) # 1..Len(frame.coordinates)
    /\ LET sum2 == WeightedSumOver(Val(current_point), Succeeded(Val(current_point)))
       IN  sum2 > 0 /\ sum2 % WeightScale # 0

\* the time of the lookup from p to location i
RouteTime(p, i) ==
    calculate_route(env.oracle, Round6(p), Round6(frame.coordinates[i])).time

\* the search is in its loop under the min-max objective, so that
\* current_time is what calculate_max_time returned for current_point
CostIsMaxTime ==
    /\ pc = "Probing" /\ frame.algorithm_type = "min_max_time"
    /\ current_time = calculate_max_time(env.oracle, Val(current_point), frame.coordinates)

\* C21: calculate_max_time returns the largest time among the locations
\* whose lookup succeeded, whatever the weights, and 0 when none succeeded;
\* a lookup that returns None or raises is skipped
C21_MaxOverSucceeded ==
    (pc = "Probing" /\ frame.algorithm_type = "min_max_time") =>
        /\ CostIsMaxTime
        /\ LET p  == Val(current_point)
               ok == Succeeded(p)
           IN  IF ok = {} THEN current_time = 0
               ELSE /\ \E i \in ok : current_time = RouteTime(p, i)
                    /\ \A i \in ok : current_time >= RouteTime(p, i)

\* a maximum over locations with unequal weights of which one lookup failed
\* and two succeeded with different times
C21_Witness ==
    /\ CostIsMaxTime
    /\ ~IsNone(frame.weights)
    /\ \E i, j \in 1..Len(Val(frame.weights)) : Val(frame.weights)[i] # Val(frame.weights)[j]
    /\ LET p == Val(current_point)
       IN  /\ Succeeded(p) # 1..Len(frame.coordinates)
           /\ \E i, j \in Succeeded(p) : RouteTime(p, i) < RouteTime(p, j)

\* C22: a candidate from which every lookup fails costs 0, and when the
\* current cost is positive and no earlier candidate of the iteration was
\* cheaper the search moves to it, with cost 0
C22_UnpricedCandidateAccepted ==
    [][LoopStep =>
         /\ current_point' \in {current_point} \cup
                                 {Some(new_points[k]) : k \in 1..Len(directions)}
         /\ \A k \in 1..Len(directions) :
               Succeeded(new_points[k]) = {} =>
                  /\ CandidateCost(new_points[k]) = 0
                  /\ (/\ current_time > 0
                      /\ \A j \in 1..(k - 1) : CandidateCost(new_points[j]) >= current_time)
                     => (current_point' = Some(new_points[k]) /\ current_time' = 0)
      ]_vars

\* a search that started from a priced point with a positive cost returned
\* a point from which no location can be priced, with total 0
C22_Witness ==
    /\ pc = "Returned" /\ opts.entry = "find_optimal_point"
    /\ initial_time > 0
    /\ Succeeded(Val(initial_point)) # {}
    /\ Succeeded(Val(result).optimal_point) = {}
    /\ Val(result).total_time = 0
    /\ Val(result).optimal_point # Val(initial_point)

\* the search was called with the method name, in any case of its letters
MethodIs(name) ==
    frame.clustering_method[1] = "str" /\ Lower(frame.clustering_method[2]) = name

\* density clustering is the method of the search: by name, or by the
\* default for None (lines 355-356)
DensityMethod == frame.clustering_method = <<"none">> \/ MethodIs(S_hdbscan)

\* the library labelled the caller's points, one label each
Labelled == env.labels # NoLabels /\ Len(env.labels) = Len(coordinates)

\* the list of centers holds the point i with its own coordinate and weight
HasSingleton(centers, i) ==
    \E k \in 1..Len(centers) :
        centers[k] = [coord |-> coordinates[i], weight |-> Val(WeightsOrOnes)[i]]

\* C23: wherever density clustering is performed, every point labelled as
\* noise is a virtual location of its own, with its own coordinate and
\* weight: in the centers apply_hdbscan returns, and in the clusters
\* find_optimal_point_with_clustering gets from _perform_clustering
C23_NoiseIsSingleton ==
    /\ (/\ pc = "Probing" /\ frame.caller = "direct" /\ Labelled
        /\ Len(coordinates) > cluster_threshold
        /\ DensityMethod) =>
           \A centers \in apply_hdbscan(coordinates, Val(WeightsOrOnes),
                                         frame.min_cluster_size[2], env.labels) :
               \A i \in 1..Len(coordinates) : env.labels[i] = -1 => HasSingleton(centers, i)
    /\ (/\ frame.caller = "clustering" /\ Labelled
        /\ Lower(opts.method[2]) = S_hdbscan) =>
           \A i \in 1..Len(coordinates) :
               env.labels[i] = -1 =>
                   \E k \in 1..Len(clusters) :
                       /\ clusters[k].coords = <<coordinates[i]>>
                       /\ clusters[k].weights = <<Val(WeightsOrOnes)[i]>>

\* the sum of w[i] over the indices i of S
RECURSIVE SumOfWeights(_, _)
SumOfWeights(w, S) ==
    IF S = {} THEN 0
    ELSE LET i == CHOOSE x \in S : TRUE IN PlusWeight(w[i], SumOfWeights(w, S \ {i}))

\* the caller passed one weight per location
OneWeightEach == ~IsNone(weights) /\ Len(Val(weights)) = Len(coordinates)

\* the input locations carrying the label l
LabelledAs(l) == {i \in 1..Len(coordinates) : env.labels[i] = l}

\* the centers are one per cluster label, weighted with the sum of the
\* weights of the locations carrying the label, and one per noise point,
\* weighted with its own weight; their weights add up to the input's
CentersPartition(centers) ==
    LET w == Val(weights)
        used == {env.labels[i] : i \in 1..Len(coordinates)} \ {-1}
    IN  /\ Len(centers) = Cardinality(used) + Cardinality(LabelledAs(-1))
        /\ \A l \in used : \E k \in 1..Len(centers) :
               centers[k].weight = SumOfWeights(w, LabelledAs(l))
        /\ \A i \in LabelledAs(-1) : HasSingleton(centers, i)
        /\ SumOfWeights([k \in 1..Len(centers) |-> centers[k].weight], 1..Len(centers))
              = SumOfWeights(w, 1..Len(coordinates))

\* the clusters of find_optimal_point_with_clustering hold every input
\* location once, and the k-th virtual location is weighted with the sum
\* of the weights of the k-th cluster
ClustersPartition ==
    LET w == Val(WeightsOrOnes)
    IN  /\ Len(frame.coordinates) = Len(clusters)
        /\ Len(Val(frame.weights)) = Len(clusters)
        /\ \A k \in 1..Len(clusters) :
               /\ Len(clusters[k].weights) = Len(clusters[k].coords)
               /\ Val(frame.weights)[k] =
                     SumOfWeights(clusters[k].weights, 1..Len(clusters[k].weights))
        /\ \A i \in 1..Len(coordinates) :
               Cardinality({<<k, j>> \in (1..Len(clusters)) \X (1..Len(coordinates)) :
                              /\ j <= Len(clusters[k].coords)
                              /\ clusters[k].coords[j] = coordinates[i]
                              /\ clusters[k].weights[j] = w[i]}) = 1
        /\ SumOfWeights([k \in 1..Len(clusters) |-> Len(clusters[k].coords)],
                        1..Len(clusters)) = Len(coordinates)
        /\ SumOfWeights(Val(frame.weights), 1..Len(clusters))
              = SumOfWeights(w, 1..Len(coordinates))

\* C24: with one weight per location, the virtual locations of both
\* clustering strategies partition the input locations, each weighted with
\* the sum of its members' weights, so that their weights add up to the
\* total input weight: in apply_hdbscan and apply_capacity_kmeans, and in
\* find_optimal_point_with_clustering
C24_ClusterWeightsAreMemberSums ==
    /\ (/\ pc = "Probing" /\ frame.caller = "direct" /\ Labelled /\ OneWeightEach
        /\ Len(coordinates) > cluster_threshold) =>
           /\ DensityMethod =>
                 \A centers \in apply_hdbscan(coordinates, Val(weights),
                                               frame.min_cluster_size[2], env.labels) :
                     CentersPartition(centers)
           /\ MethodIs(S_kmeans) =>
                 \A centers \in apply_capacity_kmeans(coordinates, Val(weights),
                                                       frame.max_cluster_size, env.labels) :
                     CentersPartition(centers)
    /\ frame.caller = "clustering" => ClustersPartition

\* a clustered search over two or more virtual locations, one of them a
\* cluster of members with unequal weights
C24_Witness ==
    /\ frame.caller = "clustering" /\ pc = "Returned"
    /\ Len(clusters) > 1
    /\ \E k \in 1..Len(clusters) : \E i, j \in 1..Len(clusters[k].weights) :
           clusters[k].weights[i] # clusters[k].weights[j]

\* the centers the clustering inside find_optimal_point can have built for
\* the call
InternalCenters ==
    IF MethodIs(S_kmeans)
    THEN apply_capacity_kmeans(coordinates, Val(weights), frame.max_cluster_size, env.labels)
    ELSE apply_hdbscan(coordinates, Val(weights), frame.min_cluster_size[2], env.labels)

\* the objective at the point p over the virtual locations of centers
CostOverCenters(p, centers) ==
    Objective(frame.algorithm_type, env.oracle, p,
              [k \in 1..Len(centers) |-> centers[k].coord],
              Some([k \in 1..Len(centers) |-> centers[k].weight]))

\* C25: when clustering ran, the initial cost and the cost of the current
\* point of the search are the objective over the virtual locations with
\* their aggregated weights: for the clustering inside find_optimal_point
\* and for find_optimal_point_with_clustering
C25_SearchOverVirtualLocations ==
    /\ (/\ pc = "Probing" /\ frame.caller = "direct" /\ Labelled /\ OneWeightEach
        /\ Len(coordinates) > cluster_threshold
        /\ (DensityMethod \/ MethodIs(S_kmeans))) =>
           \E centers \in InternalCenters :
               /\ initial_time = CostOverCenters(Val(initial_point), centers)
               /\ current_time = CostOverCenters(Val(current_point), centers)
    /\ (pc = "Probing" /\ frame.caller = "clustering") =>
           /\ Len(frame.coordinates) = Len(clusters)
           /\ initial_time = Objective(frame.algorithm_type, env.oracle, Val(initial_point),
                                       frame.coordinates, frame.weights)
           /\ current_time = Objective(frame.algorithm_type, env.oracle, Val(current_point),
                                       frame.coordinates, frame.weights)

\* the current cost is the objective of the search at the current point
CostIsObjective == current_time = CandidateCost(Val(current_point))

\* C26: a loop step never raises the current cost and lowers it strictly
\* when it moves the point; in the loop the current cost is the objective at
\* the current point; and the cost find_optimal_point returns is the
\* current cost and at most the cost of the initial point
C26_CostNeverIncreases ==
    [][/\ LoopStep =>
             /\ current_time' <= current_time
             /\ current_point' # current_point => current_time' < current_time
       /\ pc = "Probing" => CostIsObjective
       /\ pc = "Converged" =>
             /\ Val(fop_result).total_time = current_time
             /\ Val(fop_result).total_time <= initial_time
             /\ Val(fop_result).optimal_point = Val(current_point)
      ]_vars

\* a search that moved several times returned a cost below its initial cost
C26_Witness ==
    /\ pc = "Returned" /\ opts.entry = "find_optimal_point"
    /\ iteration_count > 4
    /\ Val(result).total_time < initial_time
    /\ Val(result).total_time > 0
    /\ Val(result).optimal_point # Val(initial_point)

\* C27: find_optimal_point called with coordinates and no weight list ends
\* by returning a result whose per-location report gives every location the
\* weight 1.0
C27_NoWeightsMeansUnitWeights ==
    (/\ opts.entry = "find_optimal_point"
     /\ coordinates # <<>>
     /\ IsNone(weights)
     /\ Terminated)
    => /\ pc \in {"Returned", "Formatted"}
       /\ \A i \in 1..Len(Val(result).individual_times) :
              Val(result).individual_times[i].weight = WeightScale

\* the signals that end a run
TerminalSignals == {"calculation_complete", "calculation_error"}

\* the positions of the terminal signals emitted so far
TerminalPositions == {i \in 1..Len(signals) : signals[i] \in TerminalSignals}

\* C28: a run emits no terminal signal before it ends and exactly one when
\* it ends, as its last signal; calculation_complete directly follows
\* progress 100 and carries a result; a search that raised, a search that
\* returned nothing and a reverse lookup that raised all end in
\* calculation_error
C28_OneTerminalSignal ==
    opts.entry = "run" =>
        /\ pc # "Done" => TerminalPositions = {}
        /\ pc = "Done" =>
              /\ TerminalPositions = {Len(signals)}
              /\ signals[Len(signals)] = "calculation_complete" =>
                    /\ signals[Len(signals) - 1] = "progress_100"
                    /\ error = "" /\ ~IsNone(result)
                    /\ "search" \in DOMAIN Val(result)
              /\ (error # "" \/ IsNone(result)) =>
                    signals[Len(signals)] = "calculation_error"
              /\ (error = "" /\ ~IsNone(result)) =>
                    signals[Len(signals)] = "calculation_complete"

\* a run whose search returned nothing ended in calculation_error
C28_Witness ==
    /\ opts.entry = "run" /\ pc = "Done"
    /\ coordinates = <<>>
    /\ error = "TypeError"
    /\ signals = <<"progress_10", "progress_40", "progress_70", "calculation_error">>

\* the lists the thread th was constructed with
ListsOf(th) == [coordinates |-> th.coordinates, weights |-> th.weights]

\* C29: the lists of a calculation are the application's locations as they
\* were when it was requested; no step (adding, re-weighting or deleting a
\* location, or a step of any worker) changes the lists of a calculation
\* already requested; and the lists the search of a calculation reads and
\* the per-location entries of its result are those lists
C29_InputsAreSnapshot ==
    [][/\ Len(threads') > Len(threads) =>
             ListsOf(threads'[Len(threads')]) = Snapshot(locations)
       /\ \A t \in 1..Len(threads) :
             /\ threads'[t].coordinates = threads[t].coordinates
             /\ threads'[t].weights = threads[t].weights
       /\ \A t \in 1..Len(threads') :
             /\ ~IsNone(threads'[t].searched) =>
                    Val(threads'[t].searched) = ListsOf(threads'[t])
             /\ ~IsNone(threads'[t].result) =>
                    Val(threads'[t].result).individual_times =
                        ReportEntries(ListsOf(threads'[t]))
      ]_vars

\* the first calculation has ended with a result for its location and the
\* second is in the middle of its lookups for other lists, while the
\* application by now holds a location that is in neither list
C29_Witness ==
    /\ Len(threads) = 2
    /\ threads[1].pc = "done"
    /\ Len(Val(threads[1].result).individual_times) = Len(threads[1].coordinates)
    /\ threads[1].coordinates # <<>>
    /\ threads[2].pc = "searching" /\ threads[2].made > 0
    /\ threads[2].coordinates # <<>>
    /\ ListsOf(threads[2]) # ListsOf(threads[1])
    /\ Val(threads[2].searched) = ListsOf(threads[2])
    /\ locations # <<>>
    /\ Snapshot(locations) \notin {ListsOf(threads[1]), ListsOf(threads[2])}

\* the messages of the rate-limit errors among the messages raised
RateLimitMessages == {CuqpsMessage, QpsMessage, LimitMessage, ExceededMessage}

\* the attempt a raised a rate-limit error
RaisedRateLimit(a) == a.kind = "raise" /\ a.message \in RateLimitMessages

\* the request has ended
RequestEnded == request.pc \in {"returned", "raised"}

\* at most max_retries + 1 invocations of the request function, each one
\* after the first made after a rate-limit error; a request that ended
\* returned the value of its last invocation, the first that succeeded, or
\* raised the error of its last invocation, which was no rate-limit error
\* or was the last attempt allowed
RequestBounded ==
    LET n == Len(request.calls)
    IN  /\ n <= max_retries + 1
        /\ \A k \in 1..(n - 1) : RaisedRateLimit(request.calls[k])
        /\ RequestEnded =>
              /\ n >= 1
              /\ Val(request.outcome) = request.calls[n]
              /\ request.pc = "returned" <=> request.calls[n].kind = "return"
              /\ request.pc = "raised" =>
                    (RaisedRateLimit(request.calls[n]) => n = max_retries + 1)

\* C30: a request invokes the request function at most max_retries + 1 = 4
\* times, invokes it again only after a rate-limit error, returns the
\* first value an invocation returns or raises the error of the last
\* invocation, and every request that was started ends
C30_RetriesBounded ==
    /\ []RequestBounded
    /\ (request.pc = "loop") ~> RequestEnded
====
